---------------------------- MODULE Spec2Model ----------------------------
(***************************************************************************)
(* The camelcase rule (lib/rules/camelcase.js): one create() instance, its *)
(* helpers and its Identifier handler.                                     *)
(*                                                                         *)
(* Strings are sequences of UTF-16 code units, each a one-character        *)
(* string; a JavaScript offset k is position k+1 of the sequence.  A       *)
(* RegExp is a sequence of atoms, each a character class with a quantifier *)
(* ("1", "?" or "+"), with its flags; its lastIndex is part of the state.  *)
(***************************************************************************)
EXTENDS Integers, Sequences, FiniteSets, TLC

\* Longest generated identifier of the string specification.
MaxLen == 4

(***************************************************************************)
(* String primitives of the language runtime.                              *)
(***************************************************************************)
\* a-z
LowerLetters == <<"a","b","c","d","e","f","g","h","i","j","k","l","m",
                  "n","o","p","q","r","s","t","u","v","w","x","y","z">>

\* A-Z
UpperLetters == <<"A","B","C","D","E","F","G","H","I","J","K","L","M",
                  "N","O","P","Q","R","S","T","U","V","W","X","Y","Z">>

\* A string is the sequence of its UTF-16 code units, each a string of one
\* character.  A code unit that cannot be written in a string of this
\* language is named by its value, "U+0131", and is one code unit all the
\* same; a character beyond U+FFFF is two code units, a high and a low
\* surrogate: U+10428 is <<"U+D801","U+DC28">>.
HighSurrogates == {
    "U+D800", "U+D801", "U+D802", "U+D803", "U+D804", "U+D805", "U+D806", "U+D807",
    "U+D808", "U+D809", "U+D80A", "U+D80B", "U+D80C", "U+D80D", "U+D80E", "U+D80F",
    "U+D810", "U+D811", "U+D812", "U+D813", "U+D814", "U+D815", "U+D816", "U+D817",
    "U+D818", "U+D819", "U+D81A", "U+D81B", "U+D81C", "U+D81D", "U+D81E", "U+D81F",
    "U+D820", "U+D821", "U+D822", "U+D823", "U+D824", "U+D825", "U+D826", "U+D827",
    "U+D828", "U+D829", "U+D82A", "U+D82B", "U+D82C", "U+D82D", "U+D82E", "U+D82F",
    "U+D830", "U+D831", "U+D832", "U+D833", "U+D834", "U+D835", "U+D836", "U+D837",
    "U+D838", "U+D839", "U+D83A", "U+D83B", "U+D83C", "U+D83D", "U+D83E", "U+D83F",
    "U+D840", "U+D841", "U+D842", "U+D843", "U+D844", "U+D845", "U+D846", "U+D847",
    "U+D848", "U+D849", "U+D84A", "U+D84B", "U+D84C", "U+D84D", "U+D84E", "U+D84F",
    "U+D850", "U+D851", "U+D852", "U+D853", "U+D854", "U+D855", "U+D856", "U+D857",
    "U+D858", "U+D859", "U+D85A", "U+D85B", "U+D85C", "U+D85D", "U+D85E", "U+D85F",
    "U+D860", "U+D861", "U+D862", "U+D863", "U+D864", "U+D865", "U+D866", "U+D867",
    "U+D868", "U+D869", "U+D86A", "U+D86B", "U+D86C", "U+D86D", "U+D86E", "U+D86F",
    "U+D870", "U+D871", "U+D872", "U+D873", "U+D874", "U+D875", "U+D876", "U+D877",
    "U+D878", "U+D879", "U+D87A", "U+D87B", "U+D87C", "U+D87D", "U+D87E", "U+D87F",
    "U+D880", "U+D881", "U+D882", "U+D883", "U+D884", "U+D885", "U+D886", "U+D887",
    "U+D888", "U+D889", "U+D88A", "U+D88B", "U+D88C", "U+D88D", "U+D88E", "U+D88F",
    "U+D890", "U+D891", "U+D892", "U+D893", "U+D894", "U+D895", "U+D896", "U+D897",
    "U+D898", "U+D899", "U+D89A", "U+D89B", "U+D89C", "U+D89D", "U+D89E", "U+D89F",
    "U+D8A0", "U+D8A1", "U+D8A2", "U+D8A3", "U+D8A4", "U+D8A5", "U+D8A6", "U+D8A7",
    "U+D8A8", "U+D8A9", "U+D8AA", "U+D8AB", "U+D8AC", "U+D8AD", "U+D8AE", "U+D8AF",
    "U+D8B0", "U+D8B1", "U+D8B2", "U+D8B3", "U+D8B4", "U+D8B5", "U+D8B6", "U+D8B7",
    "U+D8B8", "U+D8B9", "U+D8BA", "U+D8BB", "U+D8BC", "U+D8BD", "U+D8BE", "U+D8BF",
    "U+D8C0", "U+D8C1", "U+D8C2", "U+D8C3", "U+D8C4", "U+D8C5", "U+D8C6", "U+D8C7",
    "U+D8C8", "U+D8C9", "U+D8CA", "U+D8CB", "U+D8CC", "U+D8CD", "U+D8CE", "U+D8CF",
    "U+D8D0", "U+D8D1", "U+D8D2", "U+D8D3", "U+D8D4", "U+D8D5", "U+D8D6", "U+D8D7",
    "U+D8D8", "U+D8D9", "U+D8DA", "U+D8DB", "U+D8DC", "U+D8DD", "U+D8DE", "U+D8DF",
    "U+D8E0", "U+D8E1", "U+D8E2", "U+D8E3", "U+D8E4", "U+D8E5", "U+D8E6", "U+D8E7",
    "U+D8E8", "U+D8E9", "U+D8EA", "U+D8EB", "U+D8EC", "U+D8ED", "U+D8EE", "U+D8EF",
    "U+D8F0", "U+D8F1", "U+D8F2", "U+D8F3", "U+D8F4", "U+D8F5", "U+D8F6", "U+D8F7",
    "U+D8F8", "U+D8F9", "U+D8FA", "U+D8FB", "U+D8FC", "U+D8FD", "U+D8FE", "U+D8FF",
    "U+D900", "U+D901", "U+D902", "U+D903", "U+D904", "U+D905", "U+D906", "U+D907",
    "U+D908", "U+D909", "U+D90A", "U+D90B", "U+D90C", "U+D90D", "U+D90E", "U+D90F",
    "U+D910", "U+D911", "U+D912", "U+D913", "U+D914", "U+D915", "U+D916", "U+D917",
    "U+D918", "U+D919", "U+D91A", "U+D91B", "U+D91C", "U+D91D", "U+D91E", "U+D91F",
    "U+D920", "U+D921", "U+D922", "U+D923", "U+D924", "U+D925", "U+D926", "U+D927",
    "U+D928", "U+D929", "U+D92A", "U+D92B", "U+D92C", "U+D92D", "U+D92E", "U+D92F",
    "U+D930", "U+D931", "U+D932", "U+D933", "U+D934", "U+D935", "U+D936", "U+D937",
    "U+D938", "U+D939", "U+D93A", "U+D93B", "U+D93C", "U+D93D", "U+D93E", "U+D93F",
    "U+D940", "U+D941", "U+D942", "U+D943", "U+D944", "U+D945", "U+D946", "U+D947",
    "U+D948", "U+D949", "U+D94A", "U+D94B", "U+D94C", "U+D94D", "U+D94E", "U+D94F",
    "U+D950", "U+D951", "U+D952", "U+D953", "U+D954", "U+D955", "U+D956", "U+D957",
    "U+D958", "U+D959", "U+D95A", "U+D95B", "U+D95C", "U+D95D", "U+D95E", "U+D95F",
    "U+D960", "U+D961", "U+D962", "U+D963", "U+D964", "U+D965", "U+D966", "U+D967",
    "U+D968", "U+D969", "U+D96A", "U+D96B", "U+D96C", "U+D96D", "U+D96E", "U+D96F",
    "U+D970", "U+D971", "U+D972", "U+D973", "U+D974", "U+D975", "U+D976", "U+D977",
    "U+D978", "U+D979", "U+D97A", "U+D97B", "U+D97C", "U+D97D", "U+D97E", "U+D97F",
    "U+D980", "U+D981", "U+D982", "U+D983", "U+D984", "U+D985", "U+D986", "U+D987",
    "U+D988", "U+D989", "U+D98A", "U+D98B", "U+D98C", "U+D98D", "U+D98E", "U+D98F",
    "U+D990", "U+D991", "U+D992", "U+D993", "U+D994", "U+D995", "U+D996", "U+D997",
    "U+D998", "U+D999", "U+D99A", "U+D99B", "U+D99C", "U+D99D", "U+D99E", "U+D99F",
    "U+D9A0", "U+D9A1", "U+D9A2", "U+D9A3", "U+D9A4", "U+D9A5", "U+D9A6", "U+D9A7",
    "U+D9A8", "U+D9A9", "U+D9AA", "U+D9AB", "U+D9AC", "U+D9AD", "U+D9AE", "U+D9AF",
    "U+D9B0", "U+D9B1", "U+D9B2", "U+D9B3", "U+D9B4", "U+D9B5", "U+D9B6", "U+D9B7",
    "U+D9B8", "U+D9B9", "U+D9BA", "U+D9BB", "U+D9BC", "U+D9BD", "U+D9BE", "U+D9BF",
    "U+D9C0", "U+D9C1", "U+D9C2", "U+D9C3", "U+D9C4", "U+D9C5", "U+D9C6", "U+D9C7",
    "U+D9C8", "U+D9C9", "U+D9CA", "U+D9CB", "U+D9CC", "U+D9CD", "U+D9CE", "U+D9CF",
    "U+D9D0", "U+D9D1", "U+D9D2", "U+D9D3", "U+D9D4", "U+D9D5", "U+D9D6", "U+D9D7",
    "U+D9D8", "U+D9D9", "U+D9DA", "U+D9DB", "U+D9DC", "U+D9DD", "U+D9DE", "U+D9DF",
    "U+D9E0", "U+D9E1", "U+D9E2", "U+D9E3", "U+D9E4", "U+D9E5", "U+D9E6", "U+D9E7",
    "U+D9E8", "U+D9E9", "U+D9EA", "U+D9EB", "U+D9EC", "U+D9ED", "U+D9EE", "U+D9EF",
    "U+D9F0", "U+D9F1", "U+D9F2", "U+D9F3", "U+D9F4", "U+D9F5", "U+D9F6", "U+D9F7",
    "U+D9F8", "U+D9F9", "U+D9FA", "U+D9FB", "U+D9FC", "U+D9FD", "U+D9FE", "U+D9FF",
    "U+DA00", "U+DA01", "U+DA02", "U+DA03", "U+DA04", "U+DA05", "U+DA06", "U+DA07",
    "U+DA08", "U+DA09", "U+DA0A", "U+DA0B", "U+DA0C", "U+DA0D", "U+DA0E", "U+DA0F",
    "U+DA10", "U+DA11", "U+DA12", "U+DA13", "U+DA14", "U+DA15", "U+DA16", "U+DA17",
    "U+DA18", "U+DA19", "U+DA1A", "U+DA1B", "U+DA1C", "U+DA1D", "U+DA1E", "U+DA1F",
    "U+DA20", "U+DA21", "U+DA22", "U+DA23", "U+DA24", "U+DA25", "U+DA26", "U+DA27",
    "U+DA28", "U+DA29", "U+DA2A", "U+DA2B", "U+DA2C", "U+DA2D", "U+DA2E", "U+DA2F",
    "U+DA30", "U+DA31", "U+DA32", "U+DA33", "U+DA34", "U+DA35", "U+DA36", "U+DA37",
    "U+DA38", "U+DA39", "U+DA3A", "U+DA3B", "U+DA3C", "U+DA3D", "U+DA3E", "U+DA3F",
    "U+DA40", "U+DA41", "U+DA42", "U+DA43", "U+DA44", "U+DA45", "U+DA46", "U+DA47",
    "U+DA48", "U+DA49", "U+DA4A", "U+DA4B", "U+DA4C", "U+DA4D", "U+DA4E", "U+DA4F",
    "U+DA50", "U+DA51", "U+DA52", "U+DA53", "U+DA54", "U+DA55", "U+DA56", "U+DA57",
    "U+DA58", "U+DA59", "U+DA5A", "U+DA5B", "U+DA5C", "U+DA5D", "U+DA5E", "U+DA5F",
    "U+DA60", "U+DA61", "U+DA62", "U+DA63", "U+DA64", "U+DA65", "U+DA66", "U+DA67",
    "U+DA68", "U+DA69", "U+DA6A", "U+DA6B", "U+DA6C", "U+DA6D", "U+DA6E", "U+DA6F",
    "U+DA70", "U+DA71", "U+DA72", "U+DA73", "U+DA74", "U+DA75", "U+DA76", "U+DA77",
    "U+DA78", "U+DA79", "U+DA7A", "U+DA7B", "U+DA7C", "U+DA7D", "U+DA7E", "U+DA7F",
    "U+DA80", "U+DA81", "U+DA82", "U+DA83", "U+DA84", "U+DA85", "U+DA86", "U+DA87",
    "U+DA88", "U+DA89", "U+DA8A", "U+DA8B", "U+DA8C", "U+DA8D", "U+DA8E", "U+DA8F",
    "U+DA90", "U+DA91", "U+DA92", "U+DA93", "U+DA94", "U+DA95", "U+DA96", "U+DA97",
    "U+DA98", "U+DA99", "U+DA9A", "U+DA9B", "U+DA9C", "U+DA9D", "U+DA9E", "U+DA9F",
    "U+DAA0", "U+DAA1", "U+DAA2", "U+DAA3", "U+DAA4", "U+DAA5", "U+DAA6", "U+DAA7",
    "U+DAA8", "U+DAA9", "U+DAAA", "U+DAAB", "U+DAAC", "U+DAAD", "U+DAAE", "U+DAAF",
    "U+DAB0", "U+DAB1", "U+DAB2", "U+DAB3", "U+DAB4", "U+DAB5", "U+DAB6", "U+DAB7",
    "U+DAB8", "U+DAB9", "U+DABA", "U+DABB", "U+DABC", "U+DABD", "U+DABE", "U+DABF",
    "U+DAC0", "U+DAC1", "U+DAC2", "U+DAC3", "U+DAC4", "U+DAC5", "U+DAC6", "U+DAC7",
    "U+DAC8", "U+DAC9", "U+DACA", "U+DACB", "U+DACC", "U+DACD", "U+DACE", "U+DACF",
    "U+DAD0", "U+DAD1", "U+DAD2", "U+DAD3", "U+DAD4", "U+DAD5", "U+DAD6", "U+DAD7",
    "U+DAD8", "U+DAD9", "U+DADA", "U+DADB", "U+DADC", "U+DADD", "U+DADE", "U+DADF",
    "U+DAE0", "U+DAE1", "U+DAE2", "U+DAE3", "U+DAE4", "U+DAE5", "U+DAE6", "U+DAE7",
    "U+DAE8", "U+DAE9", "U+DAEA", "U+DAEB", "U+DAEC", "U+DAED", "U+DAEE", "U+DAEF",
    "U+DAF0", "U+DAF1", "U+DAF2", "U+DAF3", "U+DAF4", "U+DAF5", "U+DAF6", "U+DAF7",
    "U+DAF8", "U+DAF9", "U+DAFA", "U+DAFB", "U+DAFC", "U+DAFD", "U+DAFE", "U+DAFF",
    "U+DB00", "U+DB01", "U+DB02", "U+DB03", "U+DB04", "U+DB05", "U+DB06", "U+DB07",
    "U+DB08", "U+DB09", "U+DB0A", "U+DB0B", "U+DB0C", "U+DB0D", "U+DB0E", "U+DB0F",
    "U+DB10", "U+DB11", "U+DB12", "U+DB13", "U+DB14", "U+DB15", "U+DB16", "U+DB17",
    "U+DB18", "U+DB19", "U+DB1A", "U+DB1B", "U+DB1C", "U+DB1D", "U+DB1E", "U+DB1F",
    "U+DB20", "U+DB21", "U+DB22", "U+DB23", "U+DB24", "U+DB25", "U+DB26", "U+DB27",
    "U+DB28", "U+DB29", "U+DB2A", "U+DB2B", "U+DB2C", "U+DB2D", "U+DB2E", "U+DB2F",
    "U+DB30", "U+DB31", "U+DB32", "U+DB33", "U+DB34", "U+DB35", "U+DB36", "U+DB37",
    "U+DB38", "U+DB39", "U+DB3A", "U+DB3B", "U+DB3C", "U+DB3D", "U+DB3E", "U+DB3F",
    "U+DB40", "U+DB41", "U+DB42", "U+DB43", "U+DB44", "U+DB45", "U+DB46", "U+DB47",
    "U+DB48", "U+DB49", "U+DB4A", "U+DB4B", "U+DB4C", "U+DB4D", "U+DB4E", "U+DB4F",
    "U+DB50", "U+DB51", "U+DB52", "U+DB53", "U+DB54", "U+DB55", "U+DB56", "U+DB57",
    "U+DB58", "U+DB59", "U+DB5A", "U+DB5B", "U+DB5C", "U+DB5D", "U+DB5E", "U+DB5F",
    "U+DB60", "U+DB61", "U+DB62", "U+DB63", "U+DB64", "U+DB65", "U+DB66", "U+DB67",
    "U+DB68", "U+DB69", "U+DB6A", "U+DB6B", "U+DB6C", "U+DB6D", "U+DB6E", "U+DB6F",
    "U+DB70", "U+DB71", "U+DB72", "U+DB73", "U+DB74", "U+DB75", "U+DB76", "U+DB77",
    "U+DB78", "U+DB79", "U+DB7A", "U+DB7B", "U+DB7C", "U+DB7D", "U+DB7E", "U+DB7F",
    "U+DB80", "U+DB81", "U+DB82", "U+DB83", "U+DB84", "U+DB85", "U+DB86", "U+DB87",
    "U+DB88", "U+DB89", "U+DB8A", "U+DB8B", "U+DB8C", "U+DB8D", "U+DB8E", "U+DB8F",
    "U+DB90", "U+DB91", "U+DB92", "U+DB93", "U+DB94", "U+DB95", "U+DB96", "U+DB97",
    "U+DB98", "U+DB99", "U+DB9A", "U+DB9B", "U+DB9C", "U+DB9D", "U+DB9E", "U+DB9F",
    "U+DBA0", "U+DBA1", "U+DBA2", "U+DBA3", "U+DBA4", "U+DBA5", "U+DBA6", "U+DBA7",
    "U+DBA8", "U+DBA9", "U+DBAA", "U+DBAB", "U+DBAC", "U+DBAD", "U+DBAE", "U+DBAF",
    "U+DBB0", "U+DBB1", "U+DBB2", "U+DBB3", "U+DBB4", "U+DBB5", "U+DBB6", "U+DBB7",
    "U+DBB8", "U+DBB9", "U+DBBA", "U+DBBB", "U+DBBC", "U+DBBD", "U+DBBE", "U+DBBF",
    "U+DBC0", "U+DBC1", "U+DBC2", "U+DBC3", "U+DBC4", "U+DBC5", "U+DBC6", "U+DBC7",
    "U+DBC8", "U+DBC9", "U+DBCA", "U+DBCB", "U+DBCC", "U+DBCD", "U+DBCE", "U+DBCF",
    "U+DBD0", "U+DBD1", "U+DBD2", "U+DBD3", "U+DBD4", "U+DBD5", "U+DBD6", "U+DBD7",
    "U+DBD8", "U+DBD9", "U+DBDA", "U+DBDB", "U+DBDC", "U+DBDD", "U+DBDE", "U+DBDF",
    "U+DBE0", "U+DBE1", "U+DBE2", "U+DBE3", "U+DBE4", "U+DBE5", "U+DBE6", "U+DBE7",
    "U+DBE8", "U+DBE9", "U+DBEA", "U+DBEB", "U+DBEC", "U+DBED", "U+DBEE", "U+DBEF",
    "U+DBF0", "U+DBF1", "U+DBF2", "U+DBF3", "U+DBF4", "U+DBF5", "U+DBF6", "U+DBF7",
    "U+DBF8", "U+DBF9", "U+DBFA", "U+DBFB", "U+DBFC", "U+DBFD", "U+DBFE", "U+DBFF" }

LowSurrogates == {
    "U+DC00", "U+DC01", "U+DC02", "U+DC03", "U+DC04", "U+DC05", "U+DC06", "U+DC07",
    "U+DC08", "U+DC09", "U+DC0A", "U+DC0B", "U+DC0C", "U+DC0D", "U+DC0E", "U+DC0F",
    "U+DC10", "U+DC11", "U+DC12", "U+DC13", "U+DC14", "U+DC15", "U+DC16", "U+DC17",
    "U+DC18", "U+DC19", "U+DC1A", "U+DC1B", "U+DC1C", "U+DC1D", "U+DC1E", "U+DC1F",
    "U+DC20", "U+DC21", "U+DC22", "U+DC23", "U+DC24", "U+DC25", "U+DC26", "U+DC27",
    "U+DC28", "U+DC29", "U+DC2A", "U+DC2B", "U+DC2C", "U+DC2D", "U+DC2E", "U+DC2F",
    "U+DC30", "U+DC31", "U+DC32", "U+DC33", "U+DC34", "U+DC35", "U+DC36", "U+DC37",
    "U+DC38", "U+DC39", "U+DC3A", "U+DC3B", "U+DC3C", "U+DC3D", "U+DC3E", "U+DC3F",
    "U+DC40", "U+DC41", "U+DC42", "U+DC43", "U+DC44", "U+DC45", "U+DC46", "U+DC47",
    "U+DC48", "U+DC49", "U+DC4A", "U+DC4B", "U+DC4C", "U+DC4D", "U+DC4E", "U+DC4F",
    "U+DC50", "U+DC51", "U+DC52", "U+DC53", "U+DC54", "U+DC55", "U+DC56", "U+DC57",
    "U+DC58", "U+DC59", "U+DC5A", "U+DC5B", "U+DC5C", "U+DC5D", "U+DC5E", "U+DC5F",
    "U+DC60", "U+DC61", "U+DC62", "U+DC63", "U+DC64", "U+DC65", "U+DC66", "U+DC67",
    "U+DC68", "U+DC69", "U+DC6A", "U+DC6B", "U+DC6C", "U+DC6D", "U+DC6E", "U+DC6F",
    "U+DC70", "U+DC71", "U+DC72", "U+DC73", "U+DC74", "U+DC75", "U+DC76", "U+DC77",
    "U+DC78", "U+DC79", "U+DC7A", "U+DC7B", "U+DC7C", "U+DC7D", "U+DC7E", "U+DC7F",
    "U+DC80", "U+DC81", "U+DC82", "U+DC83", "U+DC84", "U+DC85", "U+DC86", "U+DC87",
    "U+DC88", "U+DC89", "U+DC8A", "U+DC8B", "U+DC8C", "U+DC8D", "U+DC8E", "U+DC8F",
    "U+DC90", "U+DC91", "U+DC92", "U+DC93", "U+DC94", "U+DC95", "U+DC96", "U+DC97",
    "U+DC98", "U+DC99", "U+DC9A", "U+DC9B", "U+DC9C", "U+DC9D", "U+DC9E", "U+DC9F",
    "U+DCA0", "U+DCA1", "U+DCA2", "U+DCA3", "U+DCA4", "U+DCA5", "U+DCA6", "U+DCA7",
    "U+DCA8", "U+DCA9", "U+DCAA", "U+DCAB", "U+DCAC", "U+DCAD", "U+DCAE", "U+DCAF",
    "U+DCB0", "U+DCB1", "U+DCB2", "U+DCB3", "U+DCB4", "U+DCB5", "U+DCB6", "U+DCB7",
    "U+DCB8", "U+DCB9", "U+DCBA", "U+DCBB", "U+DCBC", "U+DCBD", "U+DCBE", "U+DCBF",
    "U+DCC0", "U+DCC1", "U+DCC2", "U+DCC3", "U+DCC4", "U+DCC5", "U+DCC6", "U+DCC7",
    "U+DCC8", "U+DCC9", "U+DCCA", "U+DCCB", "U+DCCC", "U+DCCD", "U+DCCE", "U+DCCF",
    "U+DCD0", "U+DCD1", "U+DCD2", "U+DCD3", "U+DCD4", "U+DCD5", "U+DCD6", "U+DCD7",
    "U+DCD8", "U+DCD9", "U+DCDA", "U+DCDB", "U+DCDC", "U+DCDD", "U+DCDE", "U+DCDF",
    "U+DCE0", "U+DCE1", "U+DCE2", "U+DCE3", "U+DCE4", "U+DCE5", "U+DCE6", "U+DCE7",
    "U+DCE8", "U+DCE9", "U+DCEA", "U+DCEB", "U+DCEC", "U+DCED", "U+DCEE", "U+DCEF",
    "U+DCF0", "U+DCF1", "U+DCF2", "U+DCF3", "U+DCF4", "U+DCF5", "U+DCF6", "U+DCF7",
    "U+DCF8", "U+DCF9", "U+DCFA", "U+DCFB", "U+DCFC", "U+DCFD", "U+DCFE", "U+DCFF",
    "U+DD00", "U+DD01", "U+DD02", "U+DD03", "U+DD04", "U+DD05", "U+DD06", "U+DD07",
    "U+DD08", "U+DD09", "U+DD0A", "U+DD0B", "U+DD0C", "U+DD0D", "U+DD0E", "U+DD0F",
    "U+DD10", "U+DD11", "U+DD12", "U+DD13", "U+DD14", "U+DD15", "U+DD16", "U+DD17",
    "U+DD18", "U+DD19", "U+DD1A", "U+DD1B", "U+DD1C", "U+DD1D", "U+DD1E", "U+DD1F",
    "U+DD20", "U+DD21", "U+DD22", "U+DD23", "U+DD24", "U+DD25", "U+DD26", "U+DD27",
    "U+DD28", "U+DD29", "U+DD2A", "U+DD2B", "U+DD2C", "U+DD2D", "U+DD2E", "U+DD2F",
    "U+DD30", "U+DD31", "U+DD32", "U+DD33", "U+DD34", "U+DD35", "U+DD36", "U+DD37",
    "U+DD38", "U+DD39", "U+DD3A", "U+DD3B", "U+DD3C", "U+DD3D", "U+DD3E", "U+DD3F",
    "U+DD40", "U+DD41", "U+DD42", "U+DD43", "U+DD44", "U+DD45", "U+DD46", "U+DD47",
    "U+DD48", "U+DD49", "U+DD4A", "U+DD4B", "U+DD4C", "U+DD4D", "U+DD4E", "U+DD4F",
    "U+DD50", "U+DD51", "U+DD52", "U+DD53", "U+DD54", "U+DD55", "U+DD56", "U+DD57",
    "U+DD58", "U+DD59", "U+DD5A", "U+DD5B", "U+DD5C", "U+DD5D", "U+DD5E", "U+DD5F",
    "U+DD60", "U+DD61", "U+DD62", "U+DD63", "U+DD64", "U+DD65", "U+DD66", "U+DD67",
    "U+DD68", "U+DD69", "U+DD6A", "U+DD6B", "U+DD6C", "U+DD6D", "U+DD6E", "U+DD6F",
    "U+DD70", "U+DD71", "U+DD72", "U+DD73", "U+DD74", "U+DD75", "U+DD76", "U+DD77",
    "U+DD78", "U+DD79", "U+DD7A", "U+DD7B", "U+DD7C", "U+DD7D", "U+DD7E", "U+DD7F",
    "U+DD80", "U+DD81", "U+DD82", "U+DD83", "U+DD84", "U+DD85", "U+DD86", "U+DD87",
    "U+DD88", "U+DD89", "U+DD8A", "U+DD8B", "U+DD8C", "U+DD8D", "U+DD8E", "U+DD8F",
    "U+DD90", "U+DD91", "U+DD92", "U+DD93", "U+DD94", "U+DD95", "U+DD96", "U+DD97",
    "U+DD98", "U+DD99", "U+DD9A", "U+DD9B", "U+DD9C", "U+DD9D", "U+DD9E", "U+DD9F",
    "U+DDA0", "U+DDA1", "U+DDA2", "U+DDA3", "U+DDA4", "U+DDA5", "U+DDA6", "U+DDA7",
    "U+DDA8", "U+DDA9", "U+DDAA", "U+DDAB", "U+DDAC", "U+DDAD", "U+DDAE", "U+DDAF",
    "U+DDB0", "U+DDB1", "U+DDB2", "U+DDB3", "U+DDB4", "U+DDB5", "U+DDB6", "U+DDB7",
    "U+DDB8", "U+DDB9", "U+DDBA", "U+DDBB", "U+DDBC", "U+DDBD", "U+DDBE", "U+DDBF",
    "U+DDC0", "U+DDC1", "U+DDC2", "U+DDC3", "U+DDC4", "U+DDC5", "U+DDC6", "U+DDC7",
    "U+DDC8", "U+DDC9", "U+DDCA", "U+DDCB", "U+DDCC", "U+DDCD", "U+DDCE", "U+DDCF",
    "U+DDD0", "U+DDD1", "U+DDD2", "U+DDD3", "U+DDD4", "U+DDD5", "U+DDD6", "U+DDD7",
    "U+DDD8", "U+DDD9", "U+DDDA", "U+DDDB", "U+DDDC", "U+DDDD", "U+DDDE", "U+DDDF",
    "U+DDE0", "U+DDE1", "U+DDE2", "U+DDE3", "U+DDE4", "U+DDE5", "U+DDE6", "U+DDE7",
    "U+DDE8", "U+DDE9", "U+DDEA", "U+DDEB", "U+DDEC", "U+DDED", "U+DDEE", "U+DDEF",
    "U+DDF0", "U+DDF1", "U+DDF2", "U+DDF3", "U+DDF4", "U+DDF5", "U+DDF6", "U+DDF7",
    "U+DDF8", "U+DDF9", "U+DDFA", "U+DDFB", "U+DDFC", "U+DDFD", "U+DDFE", "U+DDFF",
    "U+DE00", "U+DE01", "U+DE02", "U+DE03", "U+DE04", "U+DE05", "U+DE06", "U+DE07",
    "U+DE08", "U+DE09", "U+DE0A", "U+DE0B", "U+DE0C", "U+DE0D", "U+DE0E", "U+DE0F",
    "U+DE10", "U+DE11", "U+DE12", "U+DE13", "U+DE14", "U+DE15", "U+DE16", "U+DE17",
    "U+DE18", "U+DE19", "U+DE1A", "U+DE1B", "U+DE1C", "U+DE1D", "U+DE1E", "U+DE1F",
    "U+DE20", "U+DE21", "U+DE22", "U+DE23", "U+DE24", "U+DE25", "U+DE26", "U+DE27",
    "U+DE28", "U+DE29", "U+DE2A", "U+DE2B", "U+DE2C", "U+DE2D", "U+DE2E", "U+DE2F",
    "U+DE30", "U+DE31", "U+DE32", "U+DE33", "U+DE34", "U+DE35", "U+DE36", "U+DE37",
    "U+DE38", "U+DE39", "U+DE3A", "U+DE3B", "U+DE3C", "U+DE3D", "U+DE3E", "U+DE3F",
    "U+DE40", "U+DE41", "U+DE42", "U+DE43", "U+DE44", "U+DE45", "U+DE46", "U+DE47",
    "U+DE48", "U+DE49", "U+DE4A", "U+DE4B", "U+DE4C", "U+DE4D", "U+DE4E", "U+DE4F",
    "U+DE50", "U+DE51", "U+DE52", "U+DE53", "U+DE54", "U+DE55", "U+DE56", "U+DE57",
    "U+DE58", "U+DE59", "U+DE5A", "U+DE5B", "U+DE5C", "U+DE5D", "U+DE5E", "U+DE5F",
    "U+DE60", "U+DE61", "U+DE62", "U+DE63", "U+DE64", "U+DE65", "U+DE66", "U+DE67",
    "U+DE68", "U+DE69", "U+DE6A", "U+DE6B", "U+DE6C", "U+DE6D", "U+DE6E", "U+DE6F",
    "U+DE70", "U+DE71", "U+DE72", "U+DE73", "U+DE74", "U+DE75", "U+DE76", "U+DE77",
    "U+DE78", "U+DE79", "U+DE7A", "U+DE7B", "U+DE7C", "U+DE7D", "U+DE7E", "U+DE7F",
    "U+DE80", "U+DE81", "U+DE82", "U+DE83", "U+DE84", "U+DE85", "U+DE86", "U+DE87",
    "U+DE88", "U+DE89", "U+DE8A", "U+DE8B", "U+DE8C", "U+DE8D", "U+DE8E", "U+DE8F",
    "U+DE90", "U+DE91", "U+DE92", "U+DE93", "U+DE94", "U+DE95", "U+DE96", "U+DE97",
    "U+DE98", "U+DE99", "U+DE9A", "U+DE9B", "U+DE9C", "U+DE9D", "U+DE9E", "U+DE9F",
    "U+DEA0", "U+DEA1", "U+DEA2", "U+DEA3", "U+DEA4", "U+DEA5", "U+DEA6", "U+DEA7",
    "U+DEA8", "U+DEA9", "U+DEAA", "U+DEAB", "U+DEAC", "U+DEAD", "U+DEAE", "U+DEAF",
    "U+DEB0", "U+DEB1", "U+DEB2", "U+DEB3", "U+DEB4", "U+DEB5", "U+DEB6", "U+DEB7",
    "U+DEB8", "U+DEB9", "U+DEBA", "U+DEBB", "U+DEBC", "U+DEBD", "U+DEBE", "U+DEBF",
    "U+DEC0", "U+DEC1", "U+DEC2", "U+DEC3", "U+DEC4", "U+DEC5", "U+DEC6", "U+DEC7",
    "U+DEC8", "U+DEC9", "U+DECA", "U+DECB", "U+DECC", "U+DECD", "U+DECE", "U+DECF",
    "U+DED0", "U+DED1", "U+DED2", "U+DED3", "U+DED4", "U+DED5", "U+DED6", "U+DED7",
    "U+DED8", "U+DED9", "U+DEDA", "U+DEDB", "U+DEDC", "U+DEDD", "U+DEDE", "U+DEDF",
    "U+DEE0", "U+DEE1", "U+DEE2", "U+DEE3", "U+DEE4", "U+DEE5", "U+DEE6", "U+DEE7",
    "U+DEE8", "U+DEE9", "U+DEEA", "U+DEEB", "U+DEEC", "U+DEED", "U+DEEE", "U+DEEF",
    "U+DEF0", "U+DEF1", "U+DEF2", "U+DEF3", "U+DEF4", "U+DEF5", "U+DEF6", "U+DEF7",
    "U+DEF8", "U+DEF9", "U+DEFA", "U+DEFB", "U+DEFC", "U+DEFD", "U+DEFE", "U+DEFF",
    "U+DF00", "U+DF01", "U+DF02", "U+DF03", "U+DF04", "U+DF05", "U+DF06", "U+DF07",
    "U+DF08", "U+DF09", "U+DF0A", "U+DF0B", "U+DF0C", "U+DF0D", "U+DF0E", "U+DF0F",
    "U+DF10", "U+DF11", "U+DF12", "U+DF13", "U+DF14", "U+DF15", "U+DF16", "U+DF17",
    "U+DF18", "U+DF19", "U+DF1A", "U+DF1B", "U+DF1C", "U+DF1D", "U+DF1E", "U+DF1F",
    "U+DF20", "U+DF21", "U+DF22", "U+DF23", "U+DF24", "U+DF25", "U+DF26", "U+DF27",
    "U+DF28", "U+DF29", "U+DF2A", "U+DF2B", "U+DF2C", "U+DF2D", "U+DF2E", "U+DF2F",
    "U+DF30", "U+DF31", "U+DF32", "U+DF33", "U+DF34", "U+DF35", "U+DF36", "U+DF37",
    "U+DF38", "U+DF39", "U+DF3A", "U+DF3B", "U+DF3C", "U+DF3D", "U+DF3E", "U+DF3F",
    "U+DF40", "U+DF41", "U+DF42", "U+DF43", "U+DF44", "U+DF45", "U+DF46", "U+DF47",
    "U+DF48", "U+DF49", "U+DF4A", "U+DF4B", "U+DF4C", "U+DF4D", "U+DF4E", "U+DF4F",
    "U+DF50", "U+DF51", "U+DF52", "U+DF53", "U+DF54", "U+DF55", "U+DF56", "U+DF57",
    "U+DF58", "U+DF59", "U+DF5A", "U+DF5B", "U+DF5C", "U+DF5D", "U+DF5E", "U+DF5F",
    "U+DF60", "U+DF61", "U+DF62", "U+DF63", "U+DF64", "U+DF65", "U+DF66", "U+DF67",
    "U+DF68", "U+DF69", "U+DF6A", "U+DF6B", "U+DF6C", "U+DF6D", "U+DF6E", "U+DF6F",
    "U+DF70", "U+DF71", "U+DF72", "U+DF73", "U+DF74", "U+DF75", "U+DF76", "U+DF77",
    "U+DF78", "U+DF79", "U+DF7A", "U+DF7B", "U+DF7C", "U+DF7D", "U+DF7E", "U+DF7F",
    "U+DF80", "U+DF81", "U+DF82", "U+DF83", "U+DF84", "U+DF85", "U+DF86", "U+DF87",
    "U+DF88", "U+DF89", "U+DF8A", "U+DF8B", "U+DF8C", "U+DF8D", "U+DF8E", "U+DF8F",
    "U+DF90", "U+DF91", "U+DF92", "U+DF93", "U+DF94", "U+DF95", "U+DF96", "U+DF97",
    "U+DF98", "U+DF99", "U+DF9A", "U+DF9B", "U+DF9C", "U+DF9D", "U+DF9E", "U+DF9F",
    "U+DFA0", "U+DFA1", "U+DFA2", "U+DFA3", "U+DFA4", "U+DFA5", "U+DFA6", "U+DFA7",
    "U+DFA8", "U+DFA9", "U+DFAA", "U+DFAB", "U+DFAC", "U+DFAD", "U+DFAE", "U+DFAF",
    "U+DFB0", "U+DFB1", "U+DFB2", "U+DFB3", "U+DFB4", "U+DFB5", "U+DFB6", "U+DFB7",
    "U+DFB8", "U+DFB9", "U+DFBA", "U+DFBB", "U+DFBC", "U+DFBD", "U+DFBE", "U+DFBF",
    "U+DFC0", "U+DFC1", "U+DFC2", "U+DFC3", "U+DFC4", "U+DFC5", "U+DFC6", "U+DFC7",
    "U+DFC8", "U+DFC9", "U+DFCA", "U+DFCB", "U+DFCC", "U+DFCD", "U+DFCE", "U+DFCF",
    "U+DFD0", "U+DFD1", "U+DFD2", "U+DFD3", "U+DFD4", "U+DFD5", "U+DFD6", "U+DFD7",
    "U+DFD8", "U+DFD9", "U+DFDA", "U+DFDB", "U+DFDC", "U+DFDD", "U+DFDE", "U+DFDF",
    "U+DFE0", "U+DFE1", "U+DFE2", "U+DFE3", "U+DFE4", "U+DFE5", "U+DFE6", "U+DFE7",
    "U+DFE8", "U+DFE9", "U+DFEA", "U+DFEB", "U+DFEC", "U+DFED", "U+DFEE", "U+DFEF",
    "U+DFF0", "U+DFF1", "U+DFF2", "U+DFF3", "U+DFF4", "U+DFF5", "U+DFF6", "U+DFF7",
    "U+DFF8", "U+DFF9", "U+DFFA", "U+DFFB", "U+DFFC", "U+DFFD", "U+DFFE", "U+DFFF" }

\* Every code unit outside ASCII that toUpperCase changes, in order.
CasedLetters == <<
    "µ", "ß", "à", "á", "â", "ã", "ä", "å", "æ", "ç",
    "è", "é", "ê", "ë", "ì", "í", "î", "ï", "ð", "ñ",
    "ò", "ó", "ô", "õ", "ö", "ø", "ù", "ú", "û", "ü",
    "ý", "þ", "ÿ", "U+0101", "U+0103", "U+0105", "U+0107", "U+0109", "U+010B", "U+010D",
    "U+010F", "U+0111", "U+0113", "U+0115", "U+0117", "U+0119", "U+011B", "U+011D", "U+011F", "U+0121",
    "U+0123", "U+0125", "U+0127", "U+0129", "U+012B", "U+012D", "U+012F", "U+0131", "U+0133", "U+0135",
    "U+0137", "U+013A", "U+013C", "U+013E", "U+0140", "U+0142", "U+0144", "U+0146", "U+0148", "U+0149",
    "U+014B", "U+014D", "U+014F", "U+0151", "U+0153", "U+0155", "U+0157", "U+0159", "U+015B", "U+015D",
    "U+015F", "U+0161", "U+0163", "U+0165", "U+0167", "U+0169", "U+016B", "U+016D", "U+016F", "U+0171",
    "U+0173", "U+0175", "U+0177", "U+017A", "U+017C", "U+017E", "U+017F", "ƀ", "ƃ", "ƅ",
    "ƈ", "ƌ", "ƒ", "ƕ", "ƙ", "ƚ", "ƛ", "ƞ", "ơ", "ƣ",
    "ƥ", "ƨ", "ƭ", "ư", "ƴ", "ƶ", "ƹ", "ƽ", "ƿ", "ǅ",
    "ǆ", "ǈ", "ǉ", "ǋ", "ǌ", "ǎ", "ǐ", "ǒ", "ǔ", "ǖ",
    "ǘ", "ǚ", "ǜ", "ǝ", "ǟ", "ǡ", "ǣ", "ǥ", "ǧ", "ǩ",
    "ǫ", "ǭ", "ǯ", "ǰ", "ǲ", "ǳ", "ǵ", "ǹ", "ǻ", "ǽ",
    "ǿ", "U+0201", "U+0203", "U+0205", "U+0207", "U+0209", "U+020B", "U+020D", "U+020F", "U+0211",
    "U+0213", "U+0215", "U+0217", "U+0219", "U+021B", "U+021D", "U+021F", "U+0223", "U+0225", "U+0227",
    "U+0229", "U+022B", "U+022D", "U+022F", "U+0231", "U+0233", "U+023C", "U+023F", "U+0240", "U+0242",
    "U+0247", "U+0249", "U+024B", "U+024D", "U+024F", "U+0250", "U+0251", "U+0252", "U+0253", "U+0254",
    "U+0256", "U+0257", "U+0259", "U+025B", "U+025C", "U+0260", "U+0261", "U+0263", "U+0264", "U+0265",
    "U+0266", "U+0268", "U+0269", "U+026A", "U+026B", "U+026C", "U+026F", "U+0271", "U+0272", "U+0275",
    "U+027D", "ʀ", "ʂ", "ʃ", "ʇ", "ʈ", "ʉ", "ʊ", "ʋ", "ʌ",
    "ʒ", "ʝ", "ʞ", "U+0345", "U+0371", "U+0373", "U+0377", "U+037B", "U+037C", "U+037D",
    "ΐ", "ά", "έ", "ή", "ί", "ΰ", "α", "β", "γ", "δ",
    "ε", "ζ", "η", "θ", "ι", "κ", "λ", "μ", "ν", "ξ",
    "ο", "π", "ρ", "ς", "σ", "τ", "υ", "φ", "χ", "ψ",
    "ω", "ϊ", "ϋ", "ό", "ύ", "ώ", "ϐ", "ϑ", "ϕ", "ϖ",
    "ϗ", "ϙ", "ϛ", "ϝ", "ϟ", "ϡ", "ϣ", "ϥ", "ϧ", "ϩ",
    "ϫ", "ϭ", "ϯ", "ϰ", "ϱ", "ϲ", "ϳ", "ϵ", "ϸ", "ϻ",
    "U+0430", "U+0431", "U+0432", "U+0433", "U+0434", "U+0435", "U+0436", "U+0437", "U+0438", "U+0439",
    "U+043A", "U+043B", "U+043C", "U+043D", "U+043E", "U+043F", "U+0440", "U+0441", "U+0442", "U+0443",
    "U+0444", "U+0445", "U+0446", "U+0447", "U+0448", "U+0449", "U+044A", "U+044B", "U+044C", "U+044D",
    "U+044E", "U+044F", "U+0450", "U+0451", "U+0452", "U+0453", "U+0454", "U+0455", "U+0456", "U+0457",
    "U+0458", "U+0459", "U+045A", "U+045B", "U+045C", "U+045D", "U+045E", "U+045F", "U+0461", "U+0463",
    "U+0465", "U+0467", "U+0469", "U+046B", "U+046D", "U+046F", "U+0471", "U+0473", "U+0475", "U+0477",
    "U+0479", "U+047B", "U+047D", "U+047F", "ҁ", "ҋ", "ҍ", "ҏ", "ґ", "ғ",
    "ҕ", "җ", "ҙ", "қ", "ҝ", "ҟ", "ҡ", "ң", "ҥ", "ҧ",
    "ҩ", "ҫ", "ҭ", "ү", "ұ", "ҳ", "ҵ", "ҷ", "ҹ", "һ",
    "ҽ", "ҿ", "ӂ", "ӄ", "ӆ", "ӈ", "ӊ", "ӌ", "ӎ", "ӏ",
    "ӑ", "ӓ", "ӕ", "ӗ", "ә", "ӛ", "ӝ", "ӟ", "ӡ", "ӣ",
    "ӥ", "ӧ", "ө", "ӫ", "ӭ", "ӯ", "ӱ", "ӳ", "ӵ", "ӷ",
    "ӹ", "ӻ", "ӽ", "ӿ", "U+0501", "U+0503", "U+0505", "U+0507", "U+0509", "U+050B",
    "U+050D", "U+050F", "U+0511", "U+0513", "U+0515", "U+0517", "U+0519", "U+051B", "U+051D", "U+051F",
    "U+0521", "U+0523", "U+0525", "U+0527", "U+0529", "U+052B", "U+052D", "U+052F", "U+0561", "U+0562",
    "U+0563", "U+0564", "U+0565", "U+0566", "U+0567", "U+0568", "U+0569", "U+056A", "U+056B", "U+056C",
    "U+056D", "U+056E", "U+056F", "U+0570", "U+0571", "U+0572", "U+0573", "U+0574", "U+0575", "U+0576",
    "U+0577", "U+0578", "U+0579", "U+057A", "U+057B", "U+057C", "U+057D", "U+057E", "U+057F", "ր",
    "ց", "ւ", "փ", "ք", "օ", "ֆ", "և", "ა", "ბ", "გ",
    "დ", "ე", "ვ", "ზ", "თ", "ი", "კ", "ლ", "მ", "ნ",
    "ო", "პ", "ჟ", "რ", "ს", "ტ", "უ", "ფ", "ქ", "ღ",
    "ყ", "შ", "ჩ", "ც", "ძ", "წ", "ჭ", "ხ", "ჯ", "ჰ",
    "ჱ", "ჲ", "ჳ", "ჴ", "ჵ", "ჶ", "ჷ", "ჸ", "ჹ", "ჺ",
    "ჽ", "ჾ", "ჿ", "ᏸ", "ᏹ", "ᏺ", "ᏻ", "ᏼ", "ᏽ", "ᲀ",
    "ᲁ", "ᲂ", "ᲃ", "ᲄ", "ᲅ", "ᲆ", "ᲇ", "ᲈ", "ᲊ", "U+1D79",
    "U+1D7D", "ᶎ", "U+1E01", "U+1E03", "U+1E05", "U+1E07", "U+1E09", "U+1E0B", "U+1E0D", "U+1E0F",
    "U+1E11", "U+1E13", "U+1E15", "U+1E17", "U+1E19", "U+1E1B", "U+1E1D", "U+1E1F", "U+1E21", "U+1E23",
    "U+1E25", "U+1E27", "U+1E29", "U+1E2B", "U+1E2D", "U+1E2F", "U+1E31", "U+1E33", "U+1E35", "U+1E37",
    "U+1E39", "U+1E3B", "U+1E3D", "U+1E3F", "U+1E41", "U+1E43", "U+1E45", "U+1E47", "U+1E49", "U+1E4B",
    "U+1E4D", "U+1E4F", "U+1E51", "U+1E53", "U+1E55", "U+1E57", "U+1E59", "U+1E5B", "U+1E5D", "U+1E5F",
    "U+1E61", "U+1E63", "U+1E65", "U+1E67", "U+1E69", "U+1E6B", "U+1E6D", "U+1E6F", "U+1E71", "U+1E73",
    "U+1E75", "U+1E77", "U+1E79", "U+1E7B", "U+1E7D", "U+1E7F", "ẁ", "ẃ", "ẅ", "ẇ",
    "ẉ", "ẋ", "ẍ", "ẏ", "ẑ", "ẓ", "ẕ", "ẖ", "ẗ", "ẘ",
    "ẙ", "ẚ", "ẛ", "ạ", "ả", "ấ", "ầ", "ẩ", "ẫ", "ậ",
    "ắ", "ằ", "ẳ", "ẵ", "ặ", "ẹ", "ẻ", "ẽ", "ế", "ề",
    "ể", "ễ", "ệ", "ỉ", "ị", "ọ", "ỏ", "ố", "ồ", "ổ",
    "ỗ", "ộ", "ớ", "ờ", "ở", "ỡ", "ợ", "ụ", "ủ", "ứ",
    "ừ", "ử", "ữ", "ự", "ỳ", "ỵ", "ỷ", "ỹ", "ỻ", "ỽ",
    "ỿ", "U+1F00", "U+1F01", "U+1F02", "U+1F03", "U+1F04", "U+1F05", "U+1F06", "U+1F07", "U+1F10",
    "U+1F11", "U+1F12", "U+1F13", "U+1F14", "U+1F15", "U+1F20", "U+1F21", "U+1F22", "U+1F23", "U+1F24",
    "U+1F25", "U+1F26", "U+1F27", "U+1F30", "U+1F31", "U+1F32", "U+1F33", "U+1F34", "U+1F35", "U+1F36",
    "U+1F37", "U+1F40", "U+1F41", "U+1F42", "U+1F43", "U+1F44", "U+1F45", "U+1F50", "U+1F51", "U+1F52",
    "U+1F53", "U+1F54", "U+1F55", "U+1F56", "U+1F57", "U+1F60", "U+1F61", "U+1F62", "U+1F63", "U+1F64",
    "U+1F65", "U+1F66", "U+1F67", "U+1F70", "U+1F71", "U+1F72", "U+1F73", "U+1F74", "U+1F75", "U+1F76",
    "U+1F77", "U+1F78", "U+1F79", "U+1F7A", "U+1F7B", "U+1F7C", "U+1F7D", "ᾀ", "ᾁ", "ᾂ",
    "ᾃ", "ᾄ", "ᾅ", "ᾆ", "ᾇ", "ᾈ", "ᾉ", "ᾊ", "ᾋ", "ᾌ",
    "ᾍ", "ᾎ", "ᾏ", "ᾐ", "ᾑ", "ᾒ", "ᾓ", "ᾔ", "ᾕ", "ᾖ",
    "ᾗ", "ᾘ", "ᾙ", "ᾚ", "ᾛ", "ᾜ", "ᾝ", "ᾞ", "ᾟ", "ᾠ",
    "ᾡ", "ᾢ", "ᾣ", "ᾤ", "ᾥ", "ᾦ", "ᾧ", "ᾨ", "ᾩ", "ᾪ",
    "ᾫ", "ᾬ", "ᾭ", "ᾮ", "ᾯ", "ᾰ", "ᾱ", "ᾲ", "ᾳ", "ᾴ",
    "ᾶ", "ᾷ", "ᾼ", "ι", "ῂ", "ῃ", "ῄ", "ῆ", "ῇ", "ῌ",
    "ῐ", "ῑ", "ῒ", "ΐ", "ῖ", "ῗ", "ῠ", "ῡ", "ῢ", "ΰ",
    "ῤ", "ῥ", "ῦ", "ῧ", "ῲ", "ῳ", "ῴ", "ῶ", "ῷ", "ῼ",
    "U+214E", "U+2170", "U+2171", "U+2172", "U+2173", "U+2174", "U+2175", "U+2176", "U+2177", "U+2178",
    "U+2179", "U+217A", "U+217B", "U+217C", "U+217D", "U+217E", "U+217F", "ↄ", "ⓐ", "ⓑ",
    "ⓒ", "ⓓ", "ⓔ", "ⓕ", "ⓖ", "ⓗ", "ⓘ", "ⓙ", "ⓚ", "ⓛ",
    "ⓜ", "ⓝ", "ⓞ", "ⓟ", "ⓠ", "ⓡ", "ⓢ", "ⓣ", "ⓤ", "ⓥ",
    "ⓦ", "ⓧ", "ⓨ", "ⓩ", "U+2C30", "U+2C31", "U+2C32", "U+2C33", "U+2C34", "U+2C35",
    "U+2C36", "U+2C37", "U+2C38", "U+2C39", "U+2C3A", "U+2C3B", "U+2C3C", "U+2C3D", "U+2C3E", "U+2C3F",
    "U+2C40", "U+2C41", "U+2C42", "U+2C43", "U+2C44", "U+2C45", "U+2C46", "U+2C47", "U+2C48", "U+2C49",
    "U+2C4A", "U+2C4B", "U+2C4C", "U+2C4D", "U+2C4E", "U+2C4F", "U+2C50", "U+2C51", "U+2C52", "U+2C53",
    "U+2C54", "U+2C55", "U+2C56", "U+2C57", "U+2C58", "U+2C59", "U+2C5A", "U+2C5B", "U+2C5C", "U+2C5D",
    "U+2C5E", "U+2C5F", "U+2C61", "U+2C65", "U+2C66", "U+2C68", "U+2C6A", "U+2C6C", "U+2C73", "U+2C76",
    "ⲁ", "ⲃ", "ⲅ", "ⲇ", "ⲉ", "ⲋ", "ⲍ", "ⲏ", "ⲑ", "ⲓ",
    "ⲕ", "ⲗ", "ⲙ", "ⲛ", "ⲝ", "ⲟ", "ⲡ", "ⲣ", "ⲥ", "ⲧ",
    "ⲩ", "ⲫ", "ⲭ", "ⲯ", "ⲱ", "ⲳ", "ⲵ", "ⲷ", "ⲹ", "ⲻ",
    "ⲽ", "ⲿ", "ⳁ", "ⳃ", "ⳅ", "ⳇ", "ⳉ", "ⳋ", "ⳍ", "ⳏ",
    "ⳑ", "ⳓ", "ⳕ", "ⳗ", "ⳙ", "ⳛ", "ⳝ", "ⳟ", "ⳡ", "ⳣ",
    "ⳬ", "ⳮ", "ⳳ", "U+2D00", "U+2D01", "U+2D02", "U+2D03", "U+2D04", "U+2D05", "U+2D06",
    "U+2D07", "U+2D08", "U+2D09", "U+2D0A", "U+2D0B", "U+2D0C", "U+2D0D", "U+2D0E", "U+2D0F", "U+2D10",
    "U+2D11", "U+2D12", "U+2D13", "U+2D14", "U+2D15", "U+2D16", "U+2D17", "U+2D18", "U+2D19", "U+2D1A",
    "U+2D1B", "U+2D1C", "U+2D1D", "U+2D1E", "U+2D1F", "U+2D20", "U+2D21", "U+2D22", "U+2D23", "U+2D24",
    "U+2D25", "U+2D27", "U+2D2D", "U+A641", "U+A643", "U+A645", "U+A647", "U+A649", "U+A64B", "U+A64D",
    "U+A64F", "U+A651", "U+A653", "U+A655", "U+A657", "U+A659", "U+A65B", "U+A65D", "U+A65F", "U+A661",
    "U+A663", "U+A665", "U+A667", "U+A669", "U+A66B", "U+A66D", "ꚁ", "ꚃ", "ꚅ", "ꚇ",
    "ꚉ", "ꚋ", "ꚍ", "ꚏ", "ꚑ", "ꚓ", "ꚕ", "ꚗ", "ꚙ", "ꚛ",
    "U+A723", "U+A725", "U+A727", "U+A729", "U+A72B", "U+A72D", "U+A72F", "U+A733", "U+A735", "U+A737",
    "U+A739", "U+A73B", "U+A73D", "U+A73F", "U+A741", "U+A743", "U+A745", "U+A747", "U+A749", "U+A74B",
    "U+A74D", "U+A74F", "U+A751", "U+A753", "U+A755", "U+A757", "U+A759", "U+A75B", "U+A75D", "U+A75F",
    "U+A761", "U+A763", "U+A765", "U+A767", "U+A769", "U+A76B", "U+A76D", "U+A76F", "U+A77A", "U+A77C",
    "U+A77F", "ꞁ", "ꞃ", "ꞅ", "ꞇ", "ꞌ", "ꞑ", "ꞓ", "ꞔ", "ꞗ",
    "ꞙ", "ꞛ", "ꞝ", "ꞟ", "ꞡ", "ꞣ", "ꞥ", "ꞧ", "ꞩ", "ꞵ",
    "ꞷ", "ꞹ", "ꞻ", "ꞽ", "ꞿ", "ꟁ", "ꟃ", "ꟈ", "ꟊ", "ꟍ",
    "꟏", "ꟑ", "ꟓ", "ꟕ", "ꟗ", "ꟙ", "ꟛ", "ꟶ", "U+AB53", "U+AB70",
    "U+AB71", "U+AB72", "U+AB73", "U+AB74", "U+AB75", "U+AB76", "U+AB77", "U+AB78", "U+AB79", "U+AB7A",
    "U+AB7B", "U+AB7C", "U+AB7D", "U+AB7E", "U+AB7F", "ꮀ", "ꮁ", "ꮂ", "ꮃ", "ꮄ",
    "ꮅ", "ꮆ", "ꮇ", "ꮈ", "ꮉ", "ꮊ", "ꮋ", "ꮌ", "ꮍ", "ꮎ",
    "ꮏ", "ꮐ", "ꮑ", "ꮒ", "ꮓ", "ꮔ", "ꮕ", "ꮖ", "ꮗ", "ꮘ",
    "ꮙ", "ꮚ", "ꮛ", "ꮜ", "ꮝ", "ꮞ", "ꮟ", "ꮠ", "ꮡ", "ꮢ",
    "ꮣ", "ꮤ", "ꮥ", "ꮦ", "ꮧ", "ꮨ", "ꮩ", "ꮪ", "ꮫ", "ꮬ",
    "ꮭ", "ꮮ", "ꮯ", "ꮰ", "ꮱ", "ꮲ", "ꮳ", "ꮴ", "ꮵ", "ꮶ",
    "ꮷ", "ꮸ", "ꮹ", "ꮺ", "ꮻ", "ꮼ", "ꮽ", "ꮾ", "ꮿ", "U+FB00",
    "U+FB01", "U+FB02", "U+FB03", "U+FB04", "U+FB05", "U+FB06", "U+FB13", "U+FB14", "U+FB15", "U+FB16",
    "U+FB17", "U+FF41", "U+FF42", "U+FF43", "U+FF44", "U+FF45", "U+FF46", "U+FF47", "U+FF48", "U+FF49",
    "U+FF4A", "U+FF4B", "U+FF4C", "U+FF4D", "U+FF4E", "U+FF4F", "U+FF50", "U+FF51", "U+FF52", "U+FF53",
    "U+FF54", "U+FF55", "U+FF56", "U+FF57", "U+FF58", "U+FF59", "U+FF5A" >>

\* UpperForms[i] is what toUpperCase makes of CasedLetters[i]: one code
\* unit, or two or three ("ß" gives "SS").
UpperForms == <<
    <<"Μ">>, <<"S","S">>, <<"À">>, <<"Á">>, <<"Â">>, <<"Ã">>, <<"Ä">>, <<"Å">>,
    <<"Æ">>, <<"Ç">>, <<"È">>, <<"É">>, <<"Ê">>, <<"Ë">>, <<"Ì">>, <<"Í">>,
    <<"Î">>, <<"Ï">>, <<"Ð">>, <<"Ñ">>, <<"Ò">>, <<"Ó">>, <<"Ô">>, <<"Õ">>,
    <<"Ö">>, <<"Ø">>, <<"Ù">>, <<"Ú">>, <<"Û">>, <<"Ü">>, <<"Ý">>, <<"Þ">>,
    <<"U+0178">>, <<"U+0100">>, <<"U+0102">>, <<"U+0104">>, <<"U+0106">>, <<"U+0108">>, <<"U+010A">>, <<"U+010C">>,
    <<"U+010E">>, <<"U+0110">>, <<"U+0112">>, <<"U+0114">>, <<"U+0116">>, <<"U+0118">>, <<"U+011A">>, <<"U+011C">>,
    <<"U+011E">>, <<"U+0120">>, <<"U+0122">>, <<"U+0124">>, <<"U+0126">>, <<"U+0128">>, <<"U+012A">>, <<"U+012C">>,
    <<"U+012E">>, <<"I">>, <<"U+0132">>, <<"U+0134">>, <<"U+0136">>, <<"U+0139">>, <<"U+013B">>, <<"U+013D">>,
    <<"U+013F">>, <<"U+0141">>, <<"U+0143">>, <<"U+0145">>, <<"U+0147">>, <<"ʼ","N">>, <<"U+014A">>, <<"U+014C">>,
    <<"U+014E">>, <<"U+0150">>, <<"U+0152">>, <<"U+0154">>, <<"U+0156">>, <<"U+0158">>, <<"U+015A">>, <<"U+015C">>,
    <<"U+015E">>, <<"U+0160">>, <<"U+0162">>, <<"U+0164">>, <<"U+0166">>, <<"U+0168">>, <<"U+016A">>, <<"U+016C">>,
    <<"U+016E">>, <<"U+0170">>, <<"U+0172">>, <<"U+0174">>, <<"U+0176">>, <<"U+0179">>, <<"U+017B">>, <<"U+017D">>,
    <<"S">>, <<"U+0243">>, <<"Ƃ">>, <<"Ƅ">>, <<"Ƈ">>, <<"Ƌ">>, <<"Ƒ">>, <<"Ƕ">>,
    <<"Ƙ">>, <<"U+023D">>, <<"Ƛ">>, <<"U+0220">>, <<"Ơ">>, <<"Ƣ">>, <<"Ƥ">>, <<"Ƨ">>,
    <<"Ƭ">>, <<"Ư">>, <<"Ƴ">>, <<"Ƶ">>, <<"Ƹ">>, <<"Ƽ">>, <<"Ƿ">>, <<"Ǆ">>,
    <<"Ǆ">>, <<"Ǉ">>, <<"Ǉ">>, <<"Ǌ">>, <<"Ǌ">>, <<"Ǎ">>, <<"Ǐ">>, <<"Ǒ">>,
    <<"Ǔ">>, <<"Ǖ">>, <<"Ǘ">>, <<"Ǚ">>, <<"Ǜ">>, <<"Ǝ">>, <<"Ǟ">>, <<"Ǡ">>,
    <<"Ǣ">>, <<"Ǥ">>, <<"Ǧ">>, <<"Ǩ">>, <<"Ǫ">>, <<"Ǭ">>, <<"Ǯ">>, <<"J","U+030C">>,
    <<"Ǳ">>, <<"Ǳ">>, <<"Ǵ">>, <<"Ǹ">>, <<"Ǻ">>, <<"Ǽ">>, <<"Ǿ">>, <<"U+0200">>,
    <<"U+0202">>, <<"U+0204">>, <<"U+0206">>, <<"U+0208">>, <<"U+020A">>, <<"U+020C">>, <<"U+020E">>, <<"U+0210">>,
    <<"U+0212">>, <<"U+0214">>, <<"U+0216">>, <<"U+0218">>, <<"U+021A">>, <<"U+021C">>, <<"U+021E">>, <<"U+0222">>,
    <<"U+0224">>, <<"U+0226">>, <<"U+0228">>, <<"U+022A">>, <<"U+022C">>, <<"U+022E">>, <<"U+0230">>, <<"U+0232">>,
    <<"U+023B">>, <<"U+2C7E">>, <<"U+2C7F">>, <<"U+0241">>, <<"U+0246">>, <<"U+0248">>, <<"U+024A">>, <<"U+024C">>,
    <<"U+024E">>, <<"U+2C6F">>, <<"U+2C6D">>, <<"U+2C70">>, <<"Ɓ">>, <<"Ɔ">>, <<"Ɖ">>, <<"Ɗ">>,
    <<"Ə">>, <<"Ɛ">>, <<"Ɜ">>, <<"Ɠ">>, <<"Ɡ">>, <<"Ɣ">>, <<"Ɤ">>, <<"Ɥ">>,
    <<"Ɦ">>, <<"Ɨ">>, <<"Ɩ">>, <<"Ɪ">>, <<"U+2C62">>, <<"Ɬ">>, <<"Ɯ">>, <<"U+2C6E">>,
    <<"Ɲ">>, <<"Ɵ">>, <<"U+2C64">>, <<"Ʀ">>, <<"Ʂ">>, <<"Ʃ">>, <<"Ʇ">>, <<"Ʈ">>,
    <<"U+0244">>, <<"Ʊ">>, <<"Ʋ">>, <<"U+0245">>, <<"Ʒ">>, <<"Ʝ">>, <<"Ʞ">>, <<"Ι">>,
    <<"U+0370">>, <<"U+0372">>, <<"U+0376">>, <<"Ͻ">>, <<"Ͼ">>, <<"Ͽ">>, <<"Ι","U+0308","U+0301">>, <<"Ά">>,
    <<"Έ">>, <<"Ή">>, <<"Ί">>, <<"Υ","U+0308","U+0301">>, <<"Α">>, <<"Β">>, <<"Γ">>, <<"Δ">>,
    <<"Ε">>, <<"Ζ">>, <<"Η">>, <<"Θ">>, <<"Ι">>, <<"Κ">>, <<"Λ">>, <<"Μ">>,
    <<"Ν">>, <<"Ξ">>, <<"Ο">>, <<"Π">>, <<"Ρ">>, <<"Σ">>, <<"Σ">>, <<"Τ">>,
    <<"Υ">>, <<"Φ">>, <<"Χ">>, <<"Ψ">>, <<"Ω">>, <<"Ϊ">>, <<"Ϋ">>, <<"Ό">>,
    <<"Ύ">>, <<"Ώ">>, <<"Β">>, <<"Θ">>, <<"Φ">>, <<"Π">>, <<"Ϗ">>, <<"Ϙ">>,
    <<"Ϛ">>, <<"Ϝ">>, <<"Ϟ">>, <<"Ϡ">>, <<"Ϣ">>, <<"Ϥ">>, <<"Ϧ">>, <<"Ϩ">>,
    <<"Ϫ">>, <<"Ϭ">>, <<"Ϯ">>, <<"Κ">>, <<"Ρ">>, <<"Ϲ">>, <<"U+037F">>, <<"Ε">>,
    <<"Ϸ">>, <<"Ϻ">>, <<"U+0410">>, <<"U+0411">>, <<"U+0412">>, <<"U+0413">>, <<"U+0414">>, <<"U+0415">>,
    <<"U+0416">>, <<"U+0417">>, <<"U+0418">>, <<"U+0419">>, <<"U+041A">>, <<"U+041B">>, <<"U+041C">>, <<"U+041D">>,
    <<"U+041E">>, <<"U+041F">>, <<"U+0420">>, <<"U+0421">>, <<"U+0422">>, <<"U+0423">>, <<"U+0424">>, <<"U+0425">>,
    <<"U+0426">>, <<"U+0427">>, <<"U+0428">>, <<"U+0429">>, <<"U+042A">>, <<"U+042B">>, <<"U+042C">>, <<"U+042D">>,
    <<"U+042E">>, <<"U+042F">>, <<"U+0400">>, <<"U+0401">>, <<"U+0402">>, <<"U+0403">>, <<"U+0404">>, <<"U+0405">>,
    <<"U+0406">>, <<"U+0407">>, <<"U+0408">>, <<"U+0409">>, <<"U+040A">>, <<"U+040B">>, <<"U+040C">>, <<"U+040D">>,
    <<"U+040E">>, <<"U+040F">>, <<"U+0460">>, <<"U+0462">>, <<"U+0464">>, <<"U+0466">>, <<"U+0468">>, <<"U+046A">>,
    <<"U+046C">>, <<"U+046E">>, <<"U+0470">>, <<"U+0472">>, <<"U+0474">>, <<"U+0476">>, <<"U+0478">>, <<"U+047A">>,
    <<"U+047C">>, <<"U+047E">>, <<"Ҁ">>, <<"Ҋ">>, <<"Ҍ">>, <<"Ҏ">>, <<"Ґ">>, <<"Ғ">>,
    <<"Ҕ">>, <<"Җ">>, <<"Ҙ">>, <<"Қ">>, <<"Ҝ">>, <<"Ҟ">>, <<"Ҡ">>, <<"Ң">>,
    <<"Ҥ">>, <<"Ҧ">>, <<"Ҩ">>, <<"Ҫ">>, <<"Ҭ">>, <<"Ү">>, <<"Ұ">>, <<"Ҳ">>,
    <<"Ҵ">>, <<"Ҷ">>, <<"Ҹ">>, <<"Һ">>, <<"Ҽ">>, <<"Ҿ">>, <<"Ӂ">>, <<"Ӄ">>,
    <<"Ӆ">>, <<"Ӈ">>, <<"Ӊ">>, <<"Ӌ">>, <<"Ӎ">>, <<"Ӏ">>, <<"Ӑ">>, <<"Ӓ">>,
    <<"Ӕ">>, <<"Ӗ">>, <<"Ә">>, <<"Ӛ">>, <<"Ӝ">>, <<"Ӟ">>, <<"Ӡ">>, <<"Ӣ">>,
    <<"Ӥ">>, <<"Ӧ">>, <<"Ө">>, <<"Ӫ">>, <<"Ӭ">>, <<"Ӯ">>, <<"Ӱ">>, <<"Ӳ">>,
    <<"Ӵ">>, <<"Ӷ">>, <<"Ӹ">>, <<"Ӻ">>, <<"Ӽ">>, <<"Ӿ">>, <<"U+0500">>, <<"U+0502">>,
    <<"U+0504">>, <<"U+0506">>, <<"U+0508">>, <<"U+050A">>, <<"U+050C">>, <<"U+050E">>, <<"U+0510">>, <<"U+0512">>,
    <<"U+0514">>, <<"U+0516">>, <<"U+0518">>, <<"U+051A">>, <<"U+051C">>, <<"U+051E">>, <<"U+0520">>, <<"U+0522">>,
    <<"U+0524">>, <<"U+0526">>, <<"U+0528">>, <<"U+052A">>, <<"U+052C">>, <<"U+052E">>, <<"U+0531">>, <<"U+0532">>,
    <<"U+0533">>, <<"U+0534">>, <<"U+0535">>, <<"U+0536">>, <<"U+0537">>, <<"U+0538">>, <<"U+0539">>, <<"U+053A">>,
    <<"U+053B">>, <<"U+053C">>, <<"U+053D">>, <<"U+053E">>, <<"U+053F">>, <<"U+0540">>, <<"U+0541">>, <<"U+0542">>,
    <<"U+0543">>, <<"U+0544">>, <<"U+0545">>, <<"U+0546">>, <<"U+0547">>, <<"U+0548">>, <<"U+0549">>, <<"U+054A">>,
    <<"U+054B">>, <<"U+054C">>, <<"U+054D">>, <<"U+054E">>, <<"U+054F">>, <<"U+0550">>, <<"U+0551">>, <<"U+0552">>,
    <<"U+0553">>, <<"U+0554">>, <<"U+0555">>, <<"U+0556">>, <<"U+0535","U+0552">>, <<"Ა">>, <<"Ბ">>, <<"Გ">>,
    <<"Დ">>, <<"Ე">>, <<"Ვ">>, <<"Ზ">>, <<"Თ">>, <<"Ი">>, <<"Კ">>, <<"Ლ">>,
    <<"Მ">>, <<"Ნ">>, <<"Ო">>, <<"Პ">>, <<"Ჟ">>, <<"Რ">>, <<"Ს">>, <<"Ტ">>,
    <<"Უ">>, <<"Ფ">>, <<"Ქ">>, <<"Ღ">>, <<"Ყ">>, <<"Შ">>, <<"Ჩ">>, <<"Ც">>,
    <<"Ძ">>, <<"Წ">>, <<"Ჭ">>, <<"Ხ">>, <<"Ჯ">>, <<"Ჰ">>, <<"Ჱ">>, <<"Ჲ">>,
    <<"Ჳ">>, <<"Ჴ">>, <<"Ჵ">>, <<"Ჶ">>, <<"Ჷ">>, <<"Ჸ">>, <<"Ჹ">>, <<"Ჺ">>,
    <<"Ჽ">>, <<"Ჾ">>, <<"Ჿ">>, <<"Ᏸ">>, <<"Ᏹ">>, <<"Ᏺ">>, <<"Ᏻ">>, <<"Ᏼ">>,
    <<"Ᏽ">>, <<"U+0412">>, <<"U+0414">>, <<"U+041E">>, <<"U+0421">>, <<"U+0422">>, <<"U+0422">>, <<"U+042A">>,
    <<"U+0462">>, <<"U+A64A">>, <<"Ᲊ">>, <<"U+A77D">>, <<"U+2C63">>, <<"Ᶎ">>, <<"U+1E00">>, <<"U+1E02">>,
    <<"U+1E04">>, <<"U+1E06">>, <<"U+1E08">>, <<"U+1E0A">>, <<"U+1E0C">>, <<"U+1E0E">>, <<"U+1E10">>, <<"U+1E12">>,
    <<"U+1E14">>, <<"U+1E16">>, <<"U+1E18">>, <<"U+1E1A">>, <<"U+1E1C">>, <<"U+1E1E">>, <<"U+1E20">>, <<"U+1E22">>,
    <<"U+1E24">>, <<"U+1E26">>, <<"U+1E28">>, <<"U+1E2A">>, <<"U+1E2C">>, <<"U+1E2E">>, <<"U+1E30">>, <<"U+1E32">>,
    <<"U+1E34">>, <<"U+1E36">>, <<"U+1E38">>, <<"U+1E3A">>, <<"U+1E3C">>, <<"U+1E3E">>, <<"U+1E40">>, <<"U+1E42">>,
    <<"U+1E44">>, <<"U+1E46">>, <<"U+1E48">>, <<"U+1E4A">>, <<"U+1E4C">>, <<"U+1E4E">>, <<"U+1E50">>, <<"U+1E52">>,
    <<"U+1E54">>, <<"U+1E56">>, <<"U+1E58">>, <<"U+1E5A">>, <<"U+1E5C">>, <<"U+1E5E">>, <<"U+1E60">>, <<"U+1E62">>,
    <<"U+1E64">>, <<"U+1E66">>, <<"U+1E68">>, <<"U+1E6A">>, <<"U+1E6C">>, <<"U+1E6E">>, <<"U+1E70">>, <<"U+1E72">>,
    <<"U+1E74">>, <<"U+1E76">>, <<"U+1E78">>, <<"U+1E7A">>, <<"U+1E7C">>, <<"U+1E7E">>, <<"Ẁ">>, <<"Ẃ">>,
    <<"Ẅ">>, <<"Ẇ">>, <<"Ẉ">>, <<"Ẋ">>, <<"Ẍ">>, <<"Ẏ">>, <<"Ẑ">>, <<"Ẓ">>,
    <<"Ẕ">>, <<"H","U+0331">>, <<"T","U+0308">>, <<"W","U+030A">>, <<"Y","U+030A">>, <<"A","ʾ">>, <<"U+1E60">>, <<"Ạ">>,
    <<"Ả">>, <<"Ấ">>, <<"Ầ">>, <<"Ẩ">>, <<"Ẫ">>, <<"Ậ">>, <<"Ắ">>, <<"Ằ">>,
    <<"Ẳ">>, <<"Ẵ">>, <<"Ặ">>, <<"Ẹ">>, <<"Ẻ">>, <<"Ẽ">>, <<"Ế">>, <<"Ề">>,
    <<"Ể">>, <<"Ễ">>, <<"Ệ">>, <<"Ỉ">>, <<"Ị">>, <<"Ọ">>, <<"Ỏ">>, <<"Ố">>,
    <<"Ồ">>, <<"Ổ">>, <<"Ỗ">>, <<"Ộ">>, <<"Ớ">>, <<"Ờ">>, <<"Ở">>, <<"Ỡ">>,
    <<"Ợ">>, <<"Ụ">>, <<"Ủ">>, <<"Ứ">>, <<"Ừ">>, <<"Ử">>, <<"Ữ">>, <<"Ự">>,
    <<"Ỳ">>, <<"Ỵ">>, <<"Ỷ">>, <<"Ỹ">>, <<"Ỻ">>, <<"Ỽ">>, <<"Ỿ">>, <<"U+1F08">>,
    <<"U+1F09">>, <<"U+1F0A">>, <<"U+1F0B">>, <<"U+1F0C">>, <<"U+1F0D">>, <<"U+1F0E">>, <<"U+1F0F">>, <<"U+1F18">>,
    <<"U+1F19">>, <<"U+1F1A">>, <<"U+1F1B">>, <<"U+1F1C">>, <<"U+1F1D">>, <<"U+1F28">>, <<"U+1F29">>, <<"U+1F2A">>,
    <<"U+1F2B">>, <<"U+1F2C">>, <<"U+1F2D">>, <<"U+1F2E">>, <<"U+1F2F">>, <<"U+1F38">>, <<"U+1F39">>, <<"U+1F3A">>,
    <<"U+1F3B">>, <<"U+1F3C">>, <<"U+1F3D">>, <<"U+1F3E">>, <<"U+1F3F">>, <<"U+1F48">>, <<"U+1F49">>, <<"U+1F4A">>,
    <<"U+1F4B">>, <<"U+1F4C">>, <<"U+1F4D">>, <<"Υ","U+0313">>, <<"U+1F59">>, <<"Υ","U+0313","U+0300">>, <<"U+1F5B">>, <<"Υ","U+0313","U+0301">>,
    <<"U+1F5D">>, <<"Υ","U+0313","U+0342">>, <<"U+1F5F">>, <<"U+1F68">>, <<"U+1F69">>, <<"U+1F6A">>, <<"U+1F6B">>, <<"U+1F6C">>,
    <<"U+1F6D">>, <<"U+1F6E">>, <<"U+1F6F">>, <<"Ὰ">>, <<"Ά">>, <<"Ὲ">>, <<"Έ">>, <<"Ὴ">>,
    <<"Ή">>, <<"Ὶ">>, <<"Ί">>, <<"Ὸ">>, <<"Ό">>, <<"Ὺ">>, <<"Ύ">>, <<"Ὼ">>,
    <<"Ώ">>, <<"U+1F08","Ι">>, <<"U+1F09","Ι">>, <<"U+1F0A","Ι">>, <<"U+1F0B","Ι">>, <<"U+1F0C","Ι">>, <<"U+1F0D","Ι">>, <<"U+1F0E","Ι">>,
    <<"U+1F0F","Ι">>, <<"U+1F08","Ι">>, <<"U+1F09","Ι">>, <<"U+1F0A","Ι">>, <<"U+1F0B","Ι">>, <<"U+1F0C","Ι">>, <<"U+1F0D","Ι">>, <<"U+1F0E","Ι">>,
    <<"U+1F0F","Ι">>, <<"U+1F28","Ι">>, <<"U+1F29","Ι">>, <<"U+1F2A","Ι">>, <<"U+1F2B","Ι">>, <<"U+1F2C","Ι">>, <<"U+1F2D","Ι">>, <<"U+1F2E","Ι">>,
    <<"U+1F2F","Ι">>, <<"U+1F28","Ι">>, <<"U+1F29","Ι">>, <<"U+1F2A","Ι">>, <<"U+1F2B","Ι">>, <<"U+1F2C","Ι">>, <<"U+1F2D","Ι">>, <<"U+1F2E","Ι">>,
    <<"U+1F2F","Ι">>, <<"U+1F68","Ι">>, <<"U+1F69","Ι">>, <<"U+1F6A","Ι">>, <<"U+1F6B","Ι">>, <<"U+1F6C","Ι">>, <<"U+1F6D","Ι">>, <<"U+1F6E","Ι">>,
    <<"U+1F6F","Ι">>, <<"U+1F68","Ι">>, <<"U+1F69","Ι">>, <<"U+1F6A","Ι">>, <<"U+1F6B","Ι">>, <<"U+1F6C","Ι">>, <<"U+1F6D","Ι">>, <<"U+1F6E","Ι">>,
    <<"U+1F6F","Ι">>, <<"Ᾰ">>, <<"Ᾱ">>, <<"Ὰ","Ι">>, <<"Α","Ι">>, <<"Ά","Ι">>, <<"Α","U+0342">>, <<"Α","U+0342","Ι">>,
    <<"Α","Ι">>, <<"Ι">>, <<"Ὴ","Ι">>, <<"Η","Ι">>, <<"Ή","Ι">>, <<"Η","U+0342">>, <<"Η","U+0342","Ι">>, <<"Η","Ι">>,
    <<"Ῐ">>, <<"Ῑ">>, <<"Ι","U+0308","U+0300">>, <<"Ι","U+0308","U+0301">>, <<"Ι","U+0342">>, <<"Ι","U+0308","U+0342">>, <<"Ῠ">>, <<"Ῡ">>,
    <<"Υ","U+0308","U+0300">>, <<"Υ","U+0308","U+0301">>, <<"Ρ","U+0313">>, <<"Ῥ">>, <<"Υ","U+0342">>, <<"Υ","U+0308","U+0342">>, <<"Ὼ","Ι">>, <<"Ω","Ι">>,
    <<"Ώ","Ι">>, <<"Ω","U+0342">>, <<"Ω","U+0342","Ι">>, <<"Ω","Ι">>, <<"U+2132">>, <<"U+2160">>, <<"U+2161">>, <<"U+2162">>,
    <<"U+2163">>, <<"U+2164">>, <<"U+2165">>, <<"U+2166">>, <<"U+2167">>, <<"U+2168">>, <<"U+2169">>, <<"U+216A">>,
    <<"U+216B">>, <<"U+216C">>, <<"U+216D">>, <<"U+216E">>, <<"U+216F">>, <<"Ↄ">>, <<"Ⓐ">>, <<"Ⓑ">>,
    <<"Ⓒ">>, <<"Ⓓ">>, <<"Ⓔ">>, <<"Ⓕ">>, <<"Ⓖ">>, <<"Ⓗ">>, <<"Ⓘ">>, <<"Ⓙ">>,
    <<"Ⓚ">>, <<"Ⓛ">>, <<"Ⓜ">>, <<"Ⓝ">>, <<"Ⓞ">>, <<"Ⓟ">>, <<"Ⓠ">>, <<"Ⓡ">>,
    <<"Ⓢ">>, <<"Ⓣ">>, <<"Ⓤ">>, <<"Ⓥ">>, <<"Ⓦ">>, <<"Ⓧ">>, <<"Ⓨ">>, <<"Ⓩ">>,
    <<"U+2C00">>, <<"U+2C01">>, <<"U+2C02">>, <<"U+2C03">>, <<"U+2C04">>, <<"U+2C05">>, <<"U+2C06">>, <<"U+2C07">>,
    <<"U+2C08">>, <<"U+2C09">>, <<"U+2C0A">>, <<"U+2C0B">>, <<"U+2C0C">>, <<"U+2C0D">>, <<"U+2C0E">>, <<"U+2C0F">>,
    <<"U+2C10">>, <<"U+2C11">>, <<"U+2C12">>, <<"U+2C13">>, <<"U+2C14">>, <<"U+2C15">>, <<"U+2C16">>, <<"U+2C17">>,
    <<"U+2C18">>, <<"U+2C19">>, <<"U+2C1A">>, <<"U+2C1B">>, <<"U+2C1C">>, <<"U+2C1D">>, <<"U+2C1E">>, <<"U+2C1F">>,
    <<"U+2C20">>, <<"U+2C21">>, <<"U+2C22">>, <<"U+2C23">>, <<"U+2C24">>, <<"U+2C25">>, <<"U+2C26">>, <<"U+2C27">>,
    <<"U+2C28">>, <<"U+2C29">>, <<"U+2C2A">>, <<"U+2C2B">>, <<"U+2C2C">>, <<"U+2C2D">>, <<"U+2C2E">>, <<"U+2C2F">>,
    <<"U+2C60">>, <<"U+023A">>, <<"U+023E">>, <<"U+2C67">>, <<"U+2C69">>, <<"U+2C6B">>, <<"U+2C72">>, <<"U+2C75">>,
    <<"Ⲁ">>, <<"Ⲃ">>, <<"Ⲅ">>, <<"Ⲇ">>, <<"Ⲉ">>, <<"Ⲋ">>, <<"Ⲍ">>, <<"Ⲏ">>,
    <<"Ⲑ">>, <<"Ⲓ">>, <<"Ⲕ">>, <<"Ⲗ">>, <<"Ⲙ">>, <<"Ⲛ">>, <<"Ⲝ">>, <<"Ⲟ">>,
    <<"Ⲡ">>, <<"Ⲣ">>, <<"Ⲥ">>, <<"Ⲧ">>, <<"Ⲩ">>, <<"Ⲫ">>, <<"Ⲭ">>, <<"Ⲯ">>,
    <<"Ⲱ">>, <<"Ⲳ">>, <<"Ⲵ">>, <<"Ⲷ">>, <<"Ⲹ">>, <<"Ⲻ">>, <<"Ⲽ">>, <<"Ⲿ">>,
    <<"Ⳁ">>, <<"Ⳃ">>, <<"Ⳅ">>, <<"Ⳇ">>, <<"Ⳉ">>, <<"Ⳋ">>, <<"Ⳍ">>, <<"Ⳏ">>,
    <<"Ⳑ">>, <<"Ⳓ">>, <<"Ⳕ">>, <<"Ⳗ">>, <<"Ⳙ">>, <<"Ⳛ">>, <<"Ⳝ">>, <<"Ⳟ">>,
    <<"Ⳡ">>, <<"Ⳣ">>, <<"Ⳬ">>, <<"Ⳮ">>, <<"Ⳳ">>, <<"Ⴀ">>, <<"Ⴁ">>, <<"Ⴂ">>,
    <<"Ⴃ">>, <<"Ⴄ">>, <<"Ⴅ">>, <<"Ⴆ">>, <<"Ⴇ">>, <<"Ⴈ">>, <<"Ⴉ">>, <<"Ⴊ">>,
    <<"Ⴋ">>, <<"Ⴌ">>, <<"Ⴍ">>, <<"Ⴎ">>, <<"Ⴏ">>, <<"Ⴐ">>, <<"Ⴑ">>, <<"Ⴒ">>,
    <<"Ⴓ">>, <<"Ⴔ">>, <<"Ⴕ">>, <<"Ⴖ">>, <<"Ⴗ">>, <<"Ⴘ">>, <<"Ⴙ">>, <<"Ⴚ">>,
    <<"Ⴛ">>, <<"Ⴜ">>, <<"Ⴝ">>, <<"Ⴞ">>, <<"Ⴟ">>, <<"Ⴠ">>, <<"Ⴡ">>, <<"Ⴢ">>,
    <<"Ⴣ">>, <<"Ⴤ">>, <<"Ⴥ">>, <<"Ⴧ">>, <<"Ⴭ">>, <<"U+A640">>, <<"U+A642">>, <<"U+A644">>,
    <<"U+A646">>, <<"U+A648">>, <<"U+A64A">>, <<"U+A64C">>, <<"U+A64E">>, <<"U+A650">>, <<"U+A652">>, <<"U+A654">>,
    <<"U+A656">>, <<"U+A658">>, <<"U+A65A">>, <<"U+A65C">>, <<"U+A65E">>, <<"U+A660">>, <<"U+A662">>, <<"U+A664">>,
    <<"U+A666">>, <<"U+A668">>, <<"U+A66A">>, <<"U+A66C">>, <<"Ꚁ">>, <<"Ꚃ">>, <<"Ꚅ">>, <<"Ꚇ">>,
    <<"Ꚉ">>, <<"Ꚋ">>, <<"Ꚍ">>, <<"Ꚏ">>, <<"Ꚑ">>, <<"Ꚓ">>, <<"Ꚕ">>, <<"Ꚗ">>,
    <<"Ꚙ">>, <<"Ꚛ">>, <<"U+A722">>, <<"U+A724">>, <<"U+A726">>, <<"U+A728">>, <<"U+A72A">>, <<"U+A72C">>,
    <<"U+A72E">>, <<"U+A732">>, <<"U+A734">>, <<"U+A736">>, <<"U+A738">>, <<"U+A73A">>, <<"U+A73C">>, <<"U+A73E">>,
    <<"U+A740">>, <<"U+A742">>, <<"U+A744">>, <<"U+A746">>, <<"U+A748">>, <<"U+A74A">>, <<"U+A74C">>, <<"U+A74E">>,
    <<"U+A750">>, <<"U+A752">>, <<"U+A754">>, <<"U+A756">>, <<"U+A758">>, <<"U+A75A">>, <<"U+A75C">>, <<"U+A75E">>,
    <<"U+A760">>, <<"U+A762">>, <<"U+A764">>, <<"U+A766">>, <<"U+A768">>, <<"U+A76A">>, <<"U+A76C">>, <<"U+A76E">>,
    <<"U+A779">>, <<"U+A77B">>, <<"U+A77E">>, <<"Ꞁ">>, <<"Ꞃ">>, <<"Ꞅ">>, <<"Ꞇ">>, <<"Ꞌ">>,
    <<"Ꞑ">>, <<"Ꞓ">>, <<"Ꞔ">>, <<"Ꞗ">>, <<"Ꞙ">>, <<"Ꞛ">>, <<"Ꞝ">>, <<"Ꞟ">>,
    <<"Ꞡ">>, <<"Ꞣ">>, <<"Ꞥ">>, <<"Ꞧ">>, <<"Ꞩ">>, <<"Ꞵ">>, <<"Ꞷ">>, <<"Ꞹ">>,
    <<"Ꞻ">>, <<"Ꞽ">>, <<"Ꞿ">>, <<"Ꟁ">>, <<"Ꟃ">>, <<"Ꟈ">>, <<"Ꟊ">>, <<"Ꟍ">>,
    <<"꟎">>, <<"Ꟑ">>, <<"꟒">>, <<"꟔">>, <<"Ꟗ">>, <<"Ꟙ">>, <<"Ꟛ">>, <<"Ꟶ">>,
    <<"Ꭓ">>, <<"Ꭰ">>, <<"Ꭱ">>, <<"Ꭲ">>, <<"Ꭳ">>, <<"Ꭴ">>, <<"Ꭵ">>, <<"Ꭶ">>,
    <<"Ꭷ">>, <<"Ꭸ">>, <<"Ꭹ">>, <<"Ꭺ">>, <<"Ꭻ">>, <<"Ꭼ">>, <<"Ꭽ">>, <<"Ꭾ">>,
    <<"Ꭿ">>, <<"Ꮀ">>, <<"Ꮁ">>, <<"Ꮂ">>, <<"Ꮃ">>, <<"Ꮄ">>, <<"Ꮅ">>, <<"Ꮆ">>,
    <<"Ꮇ">>, <<"Ꮈ">>, <<"Ꮉ">>, <<"Ꮊ">>, <<"Ꮋ">>, <<"Ꮌ">>, <<"Ꮍ">>, <<"Ꮎ">>,
    <<"Ꮏ">>, <<"Ꮐ">>, <<"Ꮑ">>, <<"Ꮒ">>, <<"Ꮓ">>, <<"Ꮔ">>, <<"Ꮕ">>, <<"Ꮖ">>,
    <<"Ꮗ">>, <<"Ꮘ">>, <<"Ꮙ">>, <<"Ꮚ">>, <<"Ꮛ">>, <<"Ꮜ">>, <<"Ꮝ">>, <<"Ꮞ">>,
    <<"Ꮟ">>, <<"Ꮠ">>, <<"Ꮡ">>, <<"Ꮢ">>, <<"Ꮣ">>, <<"Ꮤ">>, <<"Ꮥ">>, <<"Ꮦ">>,
    <<"Ꮧ">>, <<"Ꮨ">>, <<"Ꮩ">>, <<"Ꮪ">>, <<"Ꮫ">>, <<"Ꮬ">>, <<"Ꮭ">>, <<"Ꮮ">>,
    <<"Ꮯ">>, <<"Ꮰ">>, <<"Ꮱ">>, <<"Ꮲ">>, <<"Ꮳ">>, <<"Ꮴ">>, <<"Ꮵ">>, <<"Ꮶ">>,
    <<"Ꮷ">>, <<"Ꮸ">>, <<"Ꮹ">>, <<"Ꮺ">>, <<"Ꮻ">>, <<"Ꮼ">>, <<"Ꮽ">>, <<"Ꮾ">>,
    <<"Ꮿ">>, <<"F","F">>, <<"F","I">>, <<"F","L">>, <<"F","F","I">>, <<"F","F","L">>, <<"S","T">>, <<"S","T">>,
    <<"U+0544","U+0546">>, <<"U+0544","U+0535">>, <<"U+0544","U+053B">>, <<"U+054E","U+0546">>, <<"U+0544","U+053D">>, <<"U+FF21">>, <<"U+FF22">>, <<"U+FF23">>,
    <<"U+FF24">>, <<"U+FF25">>, <<"U+FF26">>, <<"U+FF27">>, <<"U+FF28">>, <<"U+FF29">>, <<"U+FF2A">>, <<"U+FF2B">>,
    <<"U+FF2C">>, <<"U+FF2D">>, <<"U+FF2E">>, <<"U+FF2F">>, <<"U+FF30">>, <<"U+FF31">>, <<"U+FF32">>, <<"U+FF33">>,
    <<"U+FF34">>, <<"U+FF35">>, <<"U+FF36">>, <<"U+FF37">>, <<"U+FF38">>, <<"U+FF39">>, <<"U+FF3A">> >>

\* Every character beyond U+FFFF that toUpperCase changes, as its two code
\* units, in order.
AstralCased == <<
    <<"U+D801","U+DC28">>, <<"U+D801","U+DC29">>, <<"U+D801","U+DC2A">>, <<"U+D801","U+DC2B">>,
    <<"U+D801","U+DC2C">>, <<"U+D801","U+DC2D">>, <<"U+D801","U+DC2E">>, <<"U+D801","U+DC2F">>,
    <<"U+D801","U+DC30">>, <<"U+D801","U+DC31">>, <<"U+D801","U+DC32">>, <<"U+D801","U+DC33">>,
    <<"U+D801","U+DC34">>, <<"U+D801","U+DC35">>, <<"U+D801","U+DC36">>, <<"U+D801","U+DC37">>,
    <<"U+D801","U+DC38">>, <<"U+D801","U+DC39">>, <<"U+D801","U+DC3A">>, <<"U+D801","U+DC3B">>,
    <<"U+D801","U+DC3C">>, <<"U+D801","U+DC3D">>, <<"U+D801","U+DC3E">>, <<"U+D801","U+DC3F">>,
    <<"U+D801","U+DC40">>, <<"U+D801","U+DC41">>, <<"U+D801","U+DC42">>, <<"U+D801","U+DC43">>,
    <<"U+D801","U+DC44">>, <<"U+D801","U+DC45">>, <<"U+D801","U+DC46">>, <<"U+D801","U+DC47">>,
    <<"U+D801","U+DC48">>, <<"U+D801","U+DC49">>, <<"U+D801","U+DC4A">>, <<"U+D801","U+DC4B">>,
    <<"U+D801","U+DC4C">>, <<"U+D801","U+DC4D">>, <<"U+D801","U+DC4E">>, <<"U+D801","U+DC4F">>,
    <<"U+D801","U+DCD8">>, <<"U+D801","U+DCD9">>, <<"U+D801","U+DCDA">>, <<"U+D801","U+DCDB">>,
    <<"U+D801","U+DCDC">>, <<"U+D801","U+DCDD">>, <<"U+D801","U+DCDE">>, <<"U+D801","U+DCDF">>,
    <<"U+D801","U+DCE0">>, <<"U+D801","U+DCE1">>, <<"U+D801","U+DCE2">>, <<"U+D801","U+DCE3">>,
    <<"U+D801","U+DCE4">>, <<"U+D801","U+DCE5">>, <<"U+D801","U+DCE6">>, <<"U+D801","U+DCE7">>,
    <<"U+D801","U+DCE8">>, <<"U+D801","U+DCE9">>, <<"U+D801","U+DCEA">>, <<"U+D801","U+DCEB">>,
    <<"U+D801","U+DCEC">>, <<"U+D801","U+DCED">>, <<"U+D801","U+DCEE">>, <<"U+D801","U+DCEF">>,
    <<"U+D801","U+DCF0">>, <<"U+D801","U+DCF1">>, <<"U+D801","U+DCF2">>, <<"U+D801","U+DCF3">>,
    <<"U+D801","U+DCF4">>, <<"U+D801","U+DCF5">>, <<"U+D801","U+DCF6">>, <<"U+D801","U+DCF7">>,
    <<"U+D801","U+DCF8">>, <<"U+D801","U+DCF9">>, <<"U+D801","U+DCFA">>, <<"U+D801","U+DCFB">>,
    <<"U+D801","U+DD97">>, <<"U+D801","U+DD98">>, <<"U+D801","U+DD99">>, <<"U+D801","U+DD9A">>,
    <<"U+D801","U+DD9B">>, <<"U+D801","U+DD9C">>, <<"U+D801","U+DD9D">>, <<"U+D801","U+DD9E">>,
    <<"U+D801","U+DD9F">>, <<"U+D801","U+DDA0">>, <<"U+D801","U+DDA1">>, <<"U+D801","U+DDA3">>,
    <<"U+D801","U+DDA4">>, <<"U+D801","U+DDA5">>, <<"U+D801","U+DDA6">>, <<"U+D801","U+DDA7">>,
    <<"U+D801","U+DDA8">>, <<"U+D801","U+DDA9">>, <<"U+D801","U+DDAA">>, <<"U+D801","U+DDAB">>,
    <<"U+D801","U+DDAC">>, <<"U+D801","U+DDAD">>, <<"U+D801","U+DDAE">>, <<"U+D801","U+DDAF">>,
    <<"U+D801","U+DDB0">>, <<"U+D801","U+DDB1">>, <<"U+D801","U+DDB3">>, <<"U+D801","U+DDB4">>,
    <<"U+D801","U+DDB5">>, <<"U+D801","U+DDB6">>, <<"U+D801","U+DDB7">>, <<"U+D801","U+DDB8">>,
    <<"U+D801","U+DDB9">>, <<"U+D801","U+DDBB">>, <<"U+D801","U+DDBC">>, <<"U+D803","U+DCC0">>,
    <<"U+D803","U+DCC1">>, <<"U+D803","U+DCC2">>, <<"U+D803","U+DCC3">>, <<"U+D803","U+DCC4">>,
    <<"U+D803","U+DCC5">>, <<"U+D803","U+DCC6">>, <<"U+D803","U+DCC7">>, <<"U+D803","U+DCC8">>,
    <<"U+D803","U+DCC9">>, <<"U+D803","U+DCCA">>, <<"U+D803","U+DCCB">>, <<"U+D803","U+DCCC">>,
    <<"U+D803","U+DCCD">>, <<"U+D803","U+DCCE">>, <<"U+D803","U+DCCF">>, <<"U+D803","U+DCD0">>,
    <<"U+D803","U+DCD1">>, <<"U+D803","U+DCD2">>, <<"U+D803","U+DCD3">>, <<"U+D803","U+DCD4">>,
    <<"U+D803","U+DCD5">>, <<"U+D803","U+DCD6">>, <<"U+D803","U+DCD7">>, <<"U+D803","U+DCD8">>,
    <<"U+D803","U+DCD9">>, <<"U+D803","U+DCDA">>, <<"U+D803","U+DCDB">>, <<"U+D803","U+DCDC">>,
    <<"U+D803","U+DCDD">>, <<"U+D803","U+DCDE">>, <<"U+D803","U+DCDF">>, <<"U+D803","U+DCE0">>,
    <<"U+D803","U+DCE1">>, <<"U+D803","U+DCE2">>, <<"U+D803","U+DCE3">>, <<"U+D803","U+DCE4">>,
    <<"U+D803","U+DCE5">>, <<"U+D803","U+DCE6">>, <<"U+D803","U+DCE7">>, <<"U+D803","U+DCE8">>,
    <<"U+D803","U+DCE9">>, <<"U+D803","U+DCEA">>, <<"U+D803","U+DCEB">>, <<"U+D803","U+DCEC">>,
    <<"U+D803","U+DCED">>, <<"U+D803","U+DCEE">>, <<"U+D803","U+DCEF">>, <<"U+D803","U+DCF0">>,
    <<"U+D803","U+DCF1">>, <<"U+D803","U+DCF2">>, <<"U+D803","U+DD70">>, <<"U+D803","U+DD71">>,
    <<"U+D803","U+DD72">>, <<"U+D803","U+DD73">>, <<"U+D803","U+DD74">>, <<"U+D803","U+DD75">>,
    <<"U+D803","U+DD76">>, <<"U+D803","U+DD77">>, <<"U+D803","U+DD78">>, <<"U+D803","U+DD79">>,
    <<"U+D803","U+DD7A">>, <<"U+D803","U+DD7B">>, <<"U+D803","U+DD7C">>, <<"U+D803","U+DD7D">>,
    <<"U+D803","U+DD7E">>, <<"U+D803","U+DD7F">>, <<"U+D803","U+DD80">>, <<"U+D803","U+DD81">>,
    <<"U+D803","U+DD82">>, <<"U+D803","U+DD83">>, <<"U+D803","U+DD84">>, <<"U+D803","U+DD85">>,
    <<"U+D806","U+DCC0">>, <<"U+D806","U+DCC1">>, <<"U+D806","U+DCC2">>, <<"U+D806","U+DCC3">>,
    <<"U+D806","U+DCC4">>, <<"U+D806","U+DCC5">>, <<"U+D806","U+DCC6">>, <<"U+D806","U+DCC7">>,
    <<"U+D806","U+DCC8">>, <<"U+D806","U+DCC9">>, <<"U+D806","U+DCCA">>, <<"U+D806","U+DCCB">>,
    <<"U+D806","U+DCCC">>, <<"U+D806","U+DCCD">>, <<"U+D806","U+DCCE">>, <<"U+D806","U+DCCF">>,
    <<"U+D806","U+DCD0">>, <<"U+D806","U+DCD1">>, <<"U+D806","U+DCD2">>, <<"U+D806","U+DCD3">>,
    <<"U+D806","U+DCD4">>, <<"U+D806","U+DCD5">>, <<"U+D806","U+DCD6">>, <<"U+D806","U+DCD7">>,
    <<"U+D806","U+DCD8">>, <<"U+D806","U+DCD9">>, <<"U+D806","U+DCDA">>, <<"U+D806","U+DCDB">>,
    <<"U+D806","U+DCDC">>, <<"U+D806","U+DCDD">>, <<"U+D806","U+DCDE">>, <<"U+D806","U+DCDF">>,
    <<"U+D81B","U+DE60">>, <<"U+D81B","U+DE61">>, <<"U+D81B","U+DE62">>, <<"U+D81B","U+DE63">>,
    <<"U+D81B","U+DE64">>, <<"U+D81B","U+DE65">>, <<"U+D81B","U+DE66">>, <<"U+D81B","U+DE67">>,
    <<"U+D81B","U+DE68">>, <<"U+D81B","U+DE69">>, <<"U+D81B","U+DE6A">>, <<"U+D81B","U+DE6B">>,
    <<"U+D81B","U+DE6C">>, <<"U+D81B","U+DE6D">>, <<"U+D81B","U+DE6E">>, <<"U+D81B","U+DE6F">>,
    <<"U+D81B","U+DE70">>, <<"U+D81B","U+DE71">>, <<"U+D81B","U+DE72">>, <<"U+D81B","U+DE73">>,
    <<"U+D81B","U+DE74">>, <<"U+D81B","U+DE75">>, <<"U+D81B","U+DE76">>, <<"U+D81B","U+DE77">>,
    <<"U+D81B","U+DE78">>, <<"U+D81B","U+DE79">>, <<"U+D81B","U+DE7A">>, <<"U+D81B","U+DE7B">>,
    <<"U+D81B","U+DE7C">>, <<"U+D81B","U+DE7D">>, <<"U+D81B","U+DE7E">>, <<"U+D81B","U+DE7F">>,
    <<"U+D81B","U+DEBB">>, <<"U+D81B","U+DEBC">>, <<"U+D81B","U+DEBD">>, <<"U+D81B","U+DEBE">>,
    <<"U+D81B","U+DEBF">>, <<"U+D81B","U+DEC0">>, <<"U+D81B","U+DEC1">>, <<"U+D81B","U+DEC2">>,
    <<"U+D81B","U+DEC3">>, <<"U+D81B","U+DEC4">>, <<"U+D81B","U+DEC5">>, <<"U+D81B","U+DEC6">>,
    <<"U+D81B","U+DEC7">>, <<"U+D81B","U+DEC8">>, <<"U+D81B","U+DEC9">>, <<"U+D81B","U+DECA">>,
    <<"U+D81B","U+DECB">>, <<"U+D81B","U+DECC">>, <<"U+D81B","U+DECD">>, <<"U+D81B","U+DECE">>,
    <<"U+D81B","U+DECF">>, <<"U+D81B","U+DED0">>, <<"U+D81B","U+DED1">>, <<"U+D81B","U+DED2">>,
    <<"U+D81B","U+DED3">>, <<"U+D83A","U+DD22">>, <<"U+D83A","U+DD23">>, <<"U+D83A","U+DD24">>,
    <<"U+D83A","U+DD25">>, <<"U+D83A","U+DD26">>, <<"U+D83A","U+DD27">>, <<"U+D83A","U+DD28">>,
    <<"U+D83A","U+DD29">>, <<"U+D83A","U+DD2A">>, <<"U+D83A","U+DD2B">>, <<"U+D83A","U+DD2C">>,
    <<"U+D83A","U+DD2D">>, <<"U+D83A","U+DD2E">>, <<"U+D83A","U+DD2F">>, <<"U+D83A","U+DD30">>,
    <<"U+D83A","U+DD31">>, <<"U+D83A","U+DD32">>, <<"U+D83A","U+DD33">>, <<"U+D83A","U+DD34">>,
    <<"U+D83A","U+DD35">>, <<"U+D83A","U+DD36">>, <<"U+D83A","U+DD37">>, <<"U+D83A","U+DD38">>,
    <<"U+D83A","U+DD39">>, <<"U+D83A","U+DD3A">>, <<"U+D83A","U+DD3B">>, <<"U+D83A","U+DD3C">>,
    <<"U+D83A","U+DD3D">>, <<"U+D83A","U+DD3E">>, <<"U+D83A","U+DD3F">>, <<"U+D83A","U+DD40">>,
    <<"U+D83A","U+DD41">>, <<"U+D83A","U+DD42">>, <<"U+D83A","U+DD43">> >>

\* AstralUpperForms[i] is what toUpperCase makes of AstralCased[i].
AstralUpperForms == <<
    <<"U+D801","U+DC00">>, <<"U+D801","U+DC01">>, <<"U+D801","U+DC02">>, <<"U+D801","U+DC03">>,
    <<"U+D801","U+DC04">>, <<"U+D801","U+DC05">>, <<"U+D801","U+DC06">>, <<"U+D801","U+DC07">>,
    <<"U+D801","U+DC08">>, <<"U+D801","U+DC09">>, <<"U+D801","U+DC0A">>, <<"U+D801","U+DC0B">>,
    <<"U+D801","U+DC0C">>, <<"U+D801","U+DC0D">>, <<"U+D801","U+DC0E">>, <<"U+D801","U+DC0F">>,
    <<"U+D801","U+DC10">>, <<"U+D801","U+DC11">>, <<"U+D801","U+DC12">>, <<"U+D801","U+DC13">>,
    <<"U+D801","U+DC14">>, <<"U+D801","U+DC15">>, <<"U+D801","U+DC16">>, <<"U+D801","U+DC17">>,
    <<"U+D801","U+DC18">>, <<"U+D801","U+DC19">>, <<"U+D801","U+DC1A">>, <<"U+D801","U+DC1B">>,
    <<"U+D801","U+DC1C">>, <<"U+D801","U+DC1D">>, <<"U+D801","U+DC1E">>, <<"U+D801","U+DC1F">>,
    <<"U+D801","U+DC20">>, <<"U+D801","U+DC21">>, <<"U+D801","U+DC22">>, <<"U+D801","U+DC23">>,
    <<"U+D801","U+DC24">>, <<"U+D801","U+DC25">>, <<"U+D801","U+DC26">>, <<"U+D801","U+DC27">>,
    <<"U+D801","U+DCB0">>, <<"U+D801","U+DCB1">>, <<"U+D801","U+DCB2">>, <<"U+D801","U+DCB3">>,
    <<"U+D801","U+DCB4">>, <<"U+D801","U+DCB5">>, <<"U+D801","U+DCB6">>, <<"U+D801","U+DCB7">>,
    <<"U+D801","U+DCB8">>, <<"U+D801","U+DCB9">>, <<"U+D801","U+DCBA">>, <<"U+D801","U+DCBB">>,
    <<"U+D801","U+DCBC">>, <<"U+D801","U+DCBD">>, <<"U+D801","U+DCBE">>, <<"U+D801","U+DCBF">>,
    <<"U+D801","U+DCC0">>, <<"U+D801","U+DCC1">>, <<"U+D801","U+DCC2">>, <<"U+D801","U+DCC3">>,
    <<"U+D801","U+DCC4">>, <<"U+D801","U+DCC5">>, <<"U+D801","U+DCC6">>, <<"U+D801","U+DCC7">>,
    <<"U+D801","U+DCC8">>, <<"U+D801","U+DCC9">>, <<"U+D801","U+DCCA">>, <<"U+D801","U+DCCB">>,
    <<"U+D801","U+DCCC">>, <<"U+D801","U+DCCD">>, <<"U+D801","U+DCCE">>, <<"U+D801","U+DCCF">>,
    <<"U+D801","U+DCD0">>, <<"U+D801","U+DCD1">>, <<"U+D801","U+DCD2">>, <<"U+D801","U+DCD3">>,
    <<"U+D801","U+DD70">>, <<"U+D801","U+DD71">>, <<"U+D801","U+DD72">>, <<"U+D801","U+DD73">>,
    <<"U+D801","U+DD74">>, <<"U+D801","U+DD75">>, <<"U+D801","U+DD76">>, <<"U+D801","U+DD77">>,
    <<"U+D801","U+DD78">>, <<"U+D801","U+DD79">>, <<"U+D801","U+DD7A">>, <<"U+D801","U+DD7C">>,
    <<"U+D801","U+DD7D">>, <<"U+D801","U+DD7E">>, <<"U+D801","U+DD7F">>, <<"U+D801","U+DD80">>,
    <<"U+D801","U+DD81">>, <<"U+D801","U+DD82">>, <<"U+D801","U+DD83">>, <<"U+D801","U+DD84">>,
    <<"U+D801","U+DD85">>, <<"U+D801","U+DD86">>, <<"U+D801","U+DD87">>, <<"U+D801","U+DD88">>,
    <<"U+D801","U+DD89">>, <<"U+D801","U+DD8A">>, <<"U+D801","U+DD8C">>, <<"U+D801","U+DD8D">>,
    <<"U+D801","U+DD8E">>, <<"U+D801","U+DD8F">>, <<"U+D801","U+DD90">>, <<"U+D801","U+DD91">>,
    <<"U+D801","U+DD92">>, <<"U+D801","U+DD94">>, <<"U+D801","U+DD95">>, <<"U+D803","U+DC80">>,
    <<"U+D803","U+DC81">>, <<"U+D803","U+DC82">>, <<"U+D803","U+DC83">>, <<"U+D803","U+DC84">>,
    <<"U+D803","U+DC85">>, <<"U+D803","U+DC86">>, <<"U+D803","U+DC87">>, <<"U+D803","U+DC88">>,
    <<"U+D803","U+DC89">>, <<"U+D803","U+DC8A">>, <<"U+D803","U+DC8B">>, <<"U+D803","U+DC8C">>,
    <<"U+D803","U+DC8D">>, <<"U+D803","U+DC8E">>, <<"U+D803","U+DC8F">>, <<"U+D803","U+DC90">>,
    <<"U+D803","U+DC91">>, <<"U+D803","U+DC92">>, <<"U+D803","U+DC93">>, <<"U+D803","U+DC94">>,
    <<"U+D803","U+DC95">>, <<"U+D803","U+DC96">>, <<"U+D803","U+DC97">>, <<"U+D803","U+DC98">>,
    <<"U+D803","U+DC99">>, <<"U+D803","U+DC9A">>, <<"U+D803","U+DC9B">>, <<"U+D803","U+DC9C">>,
    <<"U+D803","U+DC9D">>, <<"U+D803","U+DC9E">>, <<"U+D803","U+DC9F">>, <<"U+D803","U+DCA0">>,
    <<"U+D803","U+DCA1">>, <<"U+D803","U+DCA2">>, <<"U+D803","U+DCA3">>, <<"U+D803","U+DCA4">>,
    <<"U+D803","U+DCA5">>, <<"U+D803","U+DCA6">>, <<"U+D803","U+DCA7">>, <<"U+D803","U+DCA8">>,
    <<"U+D803","U+DCA9">>, <<"U+D803","U+DCAA">>, <<"U+D803","U+DCAB">>, <<"U+D803","U+DCAC">>,
    <<"U+D803","U+DCAD">>, <<"U+D803","U+DCAE">>, <<"U+D803","U+DCAF">>, <<"U+D803","U+DCB0">>,
    <<"U+D803","U+DCB1">>, <<"U+D803","U+DCB2">>, <<"U+D803","U+DD50">>, <<"U+D803","U+DD51">>,
    <<"U+D803","U+DD52">>, <<"U+D803","U+DD53">>, <<"U+D803","U+DD54">>, <<"U+D803","U+DD55">>,
    <<"U+D803","U+DD56">>, <<"U+D803","U+DD57">>, <<"U+D803","U+DD58">>, <<"U+D803","U+DD59">>,
    <<"U+D803","U+DD5A">>, <<"U+D803","U+DD5B">>, <<"U+D803","U+DD5C">>, <<"U+D803","U+DD5D">>,
    <<"U+D803","U+DD5E">>, <<"U+D803","U+DD5F">>, <<"U+D803","U+DD60">>, <<"U+D803","U+DD61">>,
    <<"U+D803","U+DD62">>, <<"U+D803","U+DD63">>, <<"U+D803","U+DD64">>, <<"U+D803","U+DD65">>,
    <<"U+D806","U+DCA0">>, <<"U+D806","U+DCA1">>, <<"U+D806","U+DCA2">>, <<"U+D806","U+DCA3">>,
    <<"U+D806","U+DCA4">>, <<"U+D806","U+DCA5">>, <<"U+D806","U+DCA6">>, <<"U+D806","U+DCA7">>,
    <<"U+D806","U+DCA8">>, <<"U+D806","U+DCA9">>, <<"U+D806","U+DCAA">>, <<"U+D806","U+DCAB">>,
    <<"U+D806","U+DCAC">>, <<"U+D806","U+DCAD">>, <<"U+D806","U+DCAE">>, <<"U+D806","U+DCAF">>,
    <<"U+D806","U+DCB0">>, <<"U+D806","U+DCB1">>, <<"U+D806","U+DCB2">>, <<"U+D806","U+DCB3">>,
    <<"U+D806","U+DCB4">>, <<"U+D806","U+DCB5">>, <<"U+D806","U+DCB6">>, <<"U+D806","U+DCB7">>,
    <<"U+D806","U+DCB8">>, <<"U+D806","U+DCB9">>, <<"U+D806","U+DCBA">>, <<"U+D806","U+DCBB">>,
    <<"U+D806","U+DCBC">>, <<"U+D806","U+DCBD">>, <<"U+D806","U+DCBE">>, <<"U+D806","U+DCBF">>,
    <<"U+D81B","U+DE40">>, <<"U+D81B","U+DE41">>, <<"U+D81B","U+DE42">>, <<"U+D81B","U+DE43">>,
    <<"U+D81B","U+DE44">>, <<"U+D81B","U+DE45">>, <<"U+D81B","U+DE46">>, <<"U+D81B","U+DE47">>,
    <<"U+D81B","U+DE48">>, <<"U+D81B","U+DE49">>, <<"U+D81B","U+DE4A">>, <<"U+D81B","U+DE4B">>,
    <<"U+D81B","U+DE4C">>, <<"U+D81B","U+DE4D">>, <<"U+D81B","U+DE4E">>, <<"U+D81B","U+DE4F">>,
    <<"U+D81B","U+DE50">>, <<"U+D81B","U+DE51">>, <<"U+D81B","U+DE52">>, <<"U+D81B","U+DE53">>,
    <<"U+D81B","U+DE54">>, <<"U+D81B","U+DE55">>, <<"U+D81B","U+DE56">>, <<"U+D81B","U+DE57">>,
    <<"U+D81B","U+DE58">>, <<"U+D81B","U+DE59">>, <<"U+D81B","U+DE5A">>, <<"U+D81B","U+DE5B">>,
    <<"U+D81B","U+DE5C">>, <<"U+D81B","U+DE5D">>, <<"U+D81B","U+DE5E">>, <<"U+D81B","U+DE5F">>,
    <<"U+D81B","U+DEA0">>, <<"U+D81B","U+DEA1">>, <<"U+D81B","U+DEA2">>, <<"U+D81B","U+DEA3">>,
    <<"U+D81B","U+DEA4">>, <<"U+D81B","U+DEA5">>, <<"U+D81B","U+DEA6">>, <<"U+D81B","U+DEA7">>,
    <<"U+D81B","U+DEA8">>, <<"U+D81B","U+DEA9">>, <<"U+D81B","U+DEAA">>, <<"U+D81B","U+DEAB">>,
    <<"U+D81B","U+DEAC">>, <<"U+D81B","U+DEAD">>, <<"U+D81B","U+DEAE">>, <<"U+D81B","U+DEAF">>,
    <<"U+D81B","U+DEB0">>, <<"U+D81B","U+DEB1">>, <<"U+D81B","U+DEB2">>, <<"U+D81B","U+DEB3">>,
    <<"U+D81B","U+DEB4">>, <<"U+D81B","U+DEB5">>, <<"U+D81B","U+DEB6">>, <<"U+D81B","U+DEB7">>,
    <<"U+D81B","U+DEB8">>, <<"U+D83A","U+DD00">>, <<"U+D83A","U+DD01">>, <<"U+D83A","U+DD02">>,
    <<"U+D83A","U+DD03">>, <<"U+D83A","U+DD04">>, <<"U+D83A","U+DD05">>, <<"U+D83A","U+DD06">>,
    <<"U+D83A","U+DD07">>, <<"U+D83A","U+DD08">>, <<"U+D83A","U+DD09">>, <<"U+D83A","U+DD0A">>,
    <<"U+D83A","U+DD0B">>, <<"U+D83A","U+DD0C">>, <<"U+D83A","U+DD0D">>, <<"U+D83A","U+DD0E">>,
    <<"U+D83A","U+DD0F">>, <<"U+D83A","U+DD10">>, <<"U+D83A","U+DD11">>, <<"U+D83A","U+DD12">>,
    <<"U+D83A","U+DD13">>, <<"U+D83A","U+DD14">>, <<"U+D83A","U+DD15">>, <<"U+D83A","U+DD16">>,
    <<"U+D83A","U+DD17">>, <<"U+D83A","U+DD18">>, <<"U+D83A","U+DD19">>, <<"U+D83A","U+DD1A">>,
    <<"U+D83A","U+DD1B">>, <<"U+D83A","U+DD1C">>, <<"U+D83A","U+DD1D">>, <<"U+D83A","U+DD1E">>,
    <<"U+D83A","U+DD1F">>, <<"U+D83A","U+DD20">>, <<"U+D83A","U+DD21">> >>

\* Every code unit that simple case folding changes, A-Z included, in order.
FoldedLetters == <<
    "A", "B", "C", "D", "E", "F", "G", "H", "I", "J",
    "K", "L", "M", "N", "O", "P", "Q", "R", "S", "T",
    "U", "V", "W", "X", "Y", "Z", "µ", "À", "Á", "Â",
    "Ã", "Ä", "Å", "Æ", "Ç", "È", "É", "Ê", "Ë", "Ì",
    "Í", "Î", "Ï", "Ð", "Ñ", "Ò", "Ó", "Ô", "Õ", "Ö",
    "Ø", "Ù", "Ú", "Û", "Ü", "Ý", "Þ", "U+0100", "U+0102", "U+0104",
    "U+0106", "U+0108", "U+010A", "U+010C", "U+010E", "U+0110", "U+0112", "U+0114", "U+0116", "U+0118",
    "U+011A", "U+011C", "U+011E", "U+0120", "U+0122", "U+0124", "U+0126", "U+0128", "U+012A", "U+012C",
    "U+012E", "U+0132", "U+0134", "U+0136", "U+0139", "U+013B", "U+013D", "U+013F", "U+0141", "U+0143",
    "U+0145", "U+0147", "U+014A", "U+014C", "U+014E", "U+0150", "U+0152", "U+0154", "U+0156", "U+0158",
    "U+015A", "U+015C", "U+015E", "U+0160", "U+0162", "U+0164", "U+0166", "U+0168", "U+016A", "U+016C",
    "U+016E", "U+0170", "U+0172", "U+0174", "U+0176", "U+0178", "U+0179", "U+017B", "U+017D", "U+017F",
    "Ɓ", "Ƃ", "Ƅ", "Ɔ", "Ƈ", "Ɖ", "Ɗ", "Ƌ", "Ǝ", "Ə",
    "Ɛ", "Ƒ", "Ɠ", "Ɣ", "Ɩ", "Ɨ", "Ƙ", "Ɯ", "Ɲ", "Ɵ",
    "Ơ", "Ƣ", "Ƥ", "Ʀ", "Ƨ", "Ʃ", "Ƭ", "Ʈ", "Ư", "Ʊ",
    "Ʋ", "Ƴ", "Ƶ", "Ʒ", "Ƹ", "Ƽ", "Ǆ", "ǅ", "Ǉ", "ǈ",
    "Ǌ", "ǋ", "Ǎ", "Ǐ", "Ǒ", "Ǔ", "Ǖ", "Ǘ", "Ǚ", "Ǜ",
    "Ǟ", "Ǡ", "Ǣ", "Ǥ", "Ǧ", "Ǩ", "Ǫ", "Ǭ", "Ǯ", "Ǳ",
    "ǲ", "Ǵ", "Ƕ", "Ƿ", "Ǹ", "Ǻ", "Ǽ", "Ǿ", "U+0200", "U+0202",
    "U+0204", "U+0206", "U+0208", "U+020A", "U+020C", "U+020E", "U+0210", "U+0212", "U+0214", "U+0216",
    "U+0218", "U+021A", "U+021C", "U+021E", "U+0220", "U+0222", "U+0224", "U+0226", "U+0228", "U+022A",
    "U+022C", "U+022E", "U+0230", "U+0232", "U+023A", "U+023B", "U+023D", "U+023E", "U+0241", "U+0243",
    "U+0244", "U+0245", "U+0246", "U+0248", "U+024A", "U+024C", "U+024E", "U+0345", "U+0370", "U+0372",
    "U+0376", "U+037F", "Ά", "Έ", "Ή", "Ί", "Ό", "Ύ", "Ώ", "Α",
    "Β", "Γ", "Δ", "Ε", "Ζ", "Η", "Θ", "Ι", "Κ", "Λ",
    "Μ", "Ν", "Ξ", "Ο", "Π", "Ρ", "Σ", "Τ", "Υ", "Φ",
    "Χ", "Ψ", "Ω", "Ϊ", "Ϋ", "ς", "Ϗ", "ϐ", "ϑ", "ϕ",
    "ϖ", "Ϙ", "Ϛ", "Ϝ", "Ϟ", "Ϡ", "Ϣ", "Ϥ", "Ϧ", "Ϩ",
    "Ϫ", "Ϭ", "Ϯ", "ϰ", "ϱ", "ϴ", "ϵ", "Ϸ", "Ϲ", "Ϻ",
    "Ͻ", "Ͼ", "Ͽ", "U+0400", "U+0401", "U+0402", "U+0403", "U+0404", "U+0405", "U+0406",
    "U+0407", "U+0408", "U+0409", "U+040A", "U+040B", "U+040C", "U+040D", "U+040E", "U+040F", "U+0410",
    "U+0411", "U+0412", "U+0413", "U+0414", "U+0415", "U+0416", "U+0417", "U+0418", "U+0419", "U+041A",
    "U+041B", "U+041C", "U+041D", "U+041E", "U+041F", "U+0420", "U+0421", "U+0422", "U+0423", "U+0424",
    "U+0425", "U+0426", "U+0427", "U+0428", "U+0429", "U+042A", "U+042B", "U+042C", "U+042D", "U+042E",
    "U+042F", "U+0460", "U+0462", "U+0464", "U+0466", "U+0468", "U+046A", "U+046C", "U+046E", "U+0470",
    "U+0472", "U+0474", "U+0476", "U+0478", "U+047A", "U+047C", "U+047E", "Ҁ", "Ҋ", "Ҍ",
    "Ҏ", "Ґ", "Ғ", "Ҕ", "Җ", "Ҙ", "Қ", "Ҝ", "Ҟ", "Ҡ",
    "Ң", "Ҥ", "Ҧ", "Ҩ", "Ҫ", "Ҭ", "Ү", "Ұ", "Ҳ", "Ҵ",
    "Ҷ", "Ҹ", "Һ", "Ҽ", "Ҿ", "Ӏ", "Ӂ", "Ӄ", "Ӆ", "Ӈ",
    "Ӊ", "Ӌ", "Ӎ", "Ӑ", "Ӓ", "Ӕ", "Ӗ", "Ә", "Ӛ", "Ӝ",
    "Ӟ", "Ӡ", "Ӣ", "Ӥ", "Ӧ", "Ө", "Ӫ", "Ӭ", "Ӯ", "Ӱ",
    "Ӳ", "Ӵ", "Ӷ", "Ӹ", "Ӻ", "Ӽ", "Ӿ", "U+0500", "U+0502", "U+0504",
    "U+0506", "U+0508", "U+050A", "U+050C", "U+050E", "U+0510", "U+0512", "U+0514", "U+0516", "U+0518",
    "U+051A", "U+051C", "U+051E", "U+0520", "U+0522", "U+0524", "U+0526", "U+0528", "U+052A", "U+052C",
    "U+052E", "U+0531", "U+0532", "U+0533", "U+0534", "U+0535", "U+0536", "U+0537", "U+0538", "U+0539",
    "U+053A", "U+053B", "U+053C", "U+053D", "U+053E", "U+053F", "U+0540", "U+0541", "U+0542", "U+0543",
    "U+0544", "U+0545", "U+0546", "U+0547", "U+0548", "U+0549", "U+054A", "U+054B", "U+054C", "U+054D",
    "U+054E", "U+054F", "U+0550", "U+0551", "U+0552", "U+0553", "U+0554", "U+0555", "U+0556", "Ⴀ",
    "Ⴁ", "Ⴂ", "Ⴃ", "Ⴄ", "Ⴅ", "Ⴆ", "Ⴇ", "Ⴈ", "Ⴉ", "Ⴊ",
    "Ⴋ", "Ⴌ", "Ⴍ", "Ⴎ", "Ⴏ", "Ⴐ", "Ⴑ", "Ⴒ", "Ⴓ", "Ⴔ",
    "Ⴕ", "Ⴖ", "Ⴗ", "Ⴘ", "Ⴙ", "Ⴚ", "Ⴛ", "Ⴜ", "Ⴝ", "Ⴞ",
    "Ⴟ", "Ⴠ", "Ⴡ", "Ⴢ", "Ⴣ", "Ⴤ", "Ⴥ", "Ⴧ", "Ⴭ", "ᏸ",
    "ᏹ", "ᏺ", "ᏻ", "ᏼ", "ᏽ", "ᲀ", "ᲁ", "ᲂ", "ᲃ", "ᲄ",
    "ᲅ", "ᲆ", "ᲇ", "ᲈ", "Ᲊ", "Ა", "Ბ", "Გ", "Დ", "Ე",
    "Ვ", "Ზ", "Თ", "Ი", "Კ", "Ლ", "Მ", "Ნ", "Ო", "Პ",
    "Ჟ", "Რ", "Ს", "Ტ", "Უ", "Ფ", "Ქ", "Ღ", "Ყ", "Შ",
    "Ჩ", "Ც", "Ძ", "Წ", "Ჭ", "Ხ", "Ჯ", "Ჰ", "Ჱ", "Ჲ",
    "Ჳ", "Ჴ", "Ჵ", "Ჶ", "Ჷ", "Ჸ", "Ჹ", "Ჺ", "Ჽ", "Ჾ",
    "Ჿ", "U+1E00", "U+1E02", "U+1E04", "U+1E06", "U+1E08", "U+1E0A", "U+1E0C", "U+1E0E", "U+1E10",
    "U+1E12", "U+1E14", "U+1E16", "U+1E18", "U+1E1A", "U+1E1C", "U+1E1E", "U+1E20", "U+1E22", "U+1E24",
    "U+1E26", "U+1E28", "U+1E2A", "U+1E2C", "U+1E2E", "U+1E30", "U+1E32", "U+1E34", "U+1E36", "U+1E38",
    "U+1E3A", "U+1E3C", "U+1E3E", "U+1E40", "U+1E42", "U+1E44", "U+1E46", "U+1E48", "U+1E4A", "U+1E4C",
    "U+1E4E", "U+1E50", "U+1E52", "U+1E54", "U+1E56", "U+1E58", "U+1E5A", "U+1E5C", "U+1E5E", "U+1E60",
    "U+1E62", "U+1E64", "U+1E66", "U+1E68", "U+1E6A", "U+1E6C", "U+1E6E", "U+1E70", "U+1E72", "U+1E74",
    "U+1E76", "U+1E78", "U+1E7A", "U+1E7C", "U+1E7E", "Ẁ", "Ẃ", "Ẅ", "Ẇ", "Ẉ",
    "Ẋ", "Ẍ", "Ẏ", "Ẑ", "Ẓ", "Ẕ", "ẛ", "ẞ", "Ạ", "Ả",
    "Ấ", "Ầ", "Ẩ", "Ẫ", "Ậ", "Ắ", "Ằ", "Ẳ", "Ẵ", "Ặ",
    "Ẹ", "Ẻ", "Ẽ", "Ế", "Ề", "Ể", "Ễ", "Ệ", "Ỉ", "Ị",
    "Ọ", "Ỏ", "Ố", "Ồ", "Ổ", "Ỗ", "Ộ", "Ớ", "Ờ", "Ở",
    "Ỡ", "Ợ", "Ụ", "Ủ", "Ứ", "Ừ", "Ử", "Ữ", "Ự", "Ỳ",
    "Ỵ", "Ỷ", "Ỹ", "Ỻ", "Ỽ", "Ỿ", "U+1F08", "U+1F09", "U+1F0A", "U+1F0B",
    "U+1F0C", "U+1F0D", "U+1F0E", "U+1F0F", "U+1F18", "U+1F19", "U+1F1A", "U+1F1B", "U+1F1C", "U+1F1D",
    "U+1F28", "U+1F29", "U+1F2A", "U+1F2B", "U+1F2C", "U+1F2D", "U+1F2E", "U+1F2F", "U+1F38", "U+1F39",
    "U+1F3A", "U+1F3B", "U+1F3C", "U+1F3D", "U+1F3E", "U+1F3F", "U+1F48", "U+1F49", "U+1F4A", "U+1F4B",
    "U+1F4C", "U+1F4D", "U+1F59", "U+1F5B", "U+1F5D", "U+1F5F", "U+1F68", "U+1F69", "U+1F6A", "U+1F6B",
    "U+1F6C", "U+1F6D", "U+1F6E", "U+1F6F", "ᾈ", "ᾉ", "ᾊ", "ᾋ", "ᾌ", "ᾍ",
    "ᾎ", "ᾏ", "ᾘ", "ᾙ", "ᾚ", "ᾛ", "ᾜ", "ᾝ", "ᾞ", "ᾟ",
    "ᾨ", "ᾩ", "ᾪ", "ᾫ", "ᾬ", "ᾭ", "ᾮ", "ᾯ", "Ᾰ", "Ᾱ",
    "Ὰ", "Ά", "ᾼ", "ι", "Ὲ", "Έ", "Ὴ", "Ή", "ῌ", "ΐ",
    "Ῐ", "Ῑ", "Ὶ", "Ί", "ΰ", "Ῠ", "Ῡ", "Ὺ", "Ύ", "Ῥ",
    "Ὸ", "Ό", "Ὼ", "Ώ", "ῼ", "U+2126", "U+212A", "U+212B", "U+2132", "U+2160",
    "U+2161", "U+2162", "U+2163", "U+2164", "U+2165", "U+2166", "U+2167", "U+2168", "U+2169", "U+216A",
    "U+216B", "U+216C", "U+216D", "U+216E", "U+216F", "Ↄ", "Ⓐ", "Ⓑ", "Ⓒ", "Ⓓ",
    "Ⓔ", "Ⓕ", "Ⓖ", "Ⓗ", "Ⓘ", "Ⓙ", "Ⓚ", "Ⓛ", "Ⓜ", "Ⓝ",
    "Ⓞ", "Ⓟ", "Ⓠ", "Ⓡ", "Ⓢ", "Ⓣ", "Ⓤ", "Ⓥ", "Ⓦ", "Ⓧ",
    "Ⓨ", "Ⓩ", "U+2C00", "U+2C01", "U+2C02", "U+2C03", "U+2C04", "U+2C05", "U+2C06", "U+2C07",
    "U+2C08", "U+2C09", "U+2C0A", "U+2C0B", "U+2C0C", "U+2C0D", "U+2C0E", "U+2C0F", "U+2C10", "U+2C11",
    "U+2C12", "U+2C13", "U+2C14", "U+2C15", "U+2C16", "U+2C17", "U+2C18", "U+2C19", "U+2C1A", "U+2C1B",
    "U+2C1C", "U+2C1D", "U+2C1E", "U+2C1F", "U+2C20", "U+2C21", "U+2C22", "U+2C23", "U+2C24", "U+2C25",
    "U+2C26", "U+2C27", "U+2C28", "U+2C29", "U+2C2A", "U+2C2B", "U+2C2C", "U+2C2D", "U+2C2E", "U+2C2F",
    "U+2C60", "U+2C62", "U+2C63", "U+2C64", "U+2C67", "U+2C69", "U+2C6B", "U+2C6D", "U+2C6E", "U+2C6F",
    "U+2C70", "U+2C72", "U+2C75", "U+2C7E", "U+2C7F", "Ⲁ", "Ⲃ", "Ⲅ", "Ⲇ", "Ⲉ",
    "Ⲋ", "Ⲍ", "Ⲏ", "Ⲑ", "Ⲓ", "Ⲕ", "Ⲗ", "Ⲙ", "Ⲛ", "Ⲝ",
    "Ⲟ", "Ⲡ", "Ⲣ", "Ⲥ", "Ⲧ", "Ⲩ", "Ⲫ", "Ⲭ", "Ⲯ", "Ⲱ",
    "Ⲳ", "Ⲵ", "Ⲷ", "Ⲹ", "Ⲻ", "Ⲽ", "Ⲿ", "Ⳁ", "Ⳃ", "Ⳅ",
    "Ⳇ", "Ⳉ", "Ⳋ", "Ⳍ", "Ⳏ", "Ⳑ", "Ⳓ", "Ⳕ", "Ⳗ", "Ⳙ",
    "Ⳛ", "Ⳝ", "Ⳟ", "Ⳡ", "Ⳣ", "Ⳬ", "Ⳮ", "Ⳳ", "U+A640", "U+A642",
    "U+A644", "U+A646", "U+A648", "U+A64A", "U+A64C", "U+A64E", "U+A650", "U+A652", "U+A654", "U+A656",
    "U+A658", "U+A65A", "U+A65C", "U+A65E", "U+A660", "U+A662", "U+A664", "U+A666", "U+A668", "U+A66A",
    "U+A66C", "Ꚁ", "Ꚃ", "Ꚅ", "Ꚇ", "Ꚉ", "Ꚋ", "Ꚍ", "Ꚏ", "Ꚑ",
    "Ꚓ", "Ꚕ", "Ꚗ", "Ꚙ", "Ꚛ", "U+A722", "U+A724", "U+A726", "U+A728", "U+A72A",
    "U+A72C", "U+A72E", "U+A732", "U+A734", "U+A736", "U+A738", "U+A73A", "U+A73C", "U+A73E", "U+A740",
    "U+A742", "U+A744", "U+A746", "U+A748", "U+A74A", "U+A74C", "U+A74E", "U+A750", "U+A752", "U+A754",
    "U+A756", "U+A758", "U+A75A", "U+A75C", "U+A75E", "U+A760", "U+A762", "U+A764", "U+A766", "U+A768",
    "U+A76A", "U+A76C", "U+A76E", "U+A779", "U+A77B", "U+A77D", "U+A77E", "Ꞁ", "Ꞃ", "Ꞅ",
    "Ꞇ", "Ꞌ", "Ɥ", "Ꞑ", "Ꞓ", "Ꞗ", "Ꞙ", "Ꞛ", "Ꞝ", "Ꞟ",
    "Ꞡ", "Ꞣ", "Ꞥ", "Ꞧ", "Ꞩ", "Ɦ", "Ɜ", "Ɡ", "Ɬ", "Ɪ",
    "Ʞ", "Ʇ", "Ʝ", "Ꭓ", "Ꞵ", "Ꞷ", "Ꞹ", "Ꞻ", "Ꞽ", "Ꞿ",
    "Ꟁ", "Ꟃ", "Ꞔ", "Ʂ", "Ᶎ", "Ꟈ", "Ꟊ", "Ɤ", "Ꟍ", "꟎",
    "Ꟑ", "꟒", "꟔", "Ꟗ", "Ꟙ", "Ꟛ", "Ƛ", "Ꟶ", "U+AB70", "U+AB71",
    "U+AB72", "U+AB73", "U+AB74", "U+AB75", "U+AB76", "U+AB77", "U+AB78", "U+AB79", "U+AB7A", "U+AB7B",
    "U+AB7C", "U+AB7D", "U+AB7E", "U+AB7F", "ꮀ", "ꮁ", "ꮂ", "ꮃ", "ꮄ", "ꮅ",
    "ꮆ", "ꮇ", "ꮈ", "ꮉ", "ꮊ", "ꮋ", "ꮌ", "ꮍ", "ꮎ", "ꮏ",
    "ꮐ", "ꮑ", "ꮒ", "ꮓ", "ꮔ", "ꮕ", "ꮖ", "ꮗ", "ꮘ", "ꮙ",
    "ꮚ", "ꮛ", "ꮜ", "ꮝ", "ꮞ", "ꮟ", "ꮠ", "ꮡ", "ꮢ", "ꮣ",
    "ꮤ", "ꮥ", "ꮦ", "ꮧ", "ꮨ", "ꮩ", "ꮪ", "ꮫ", "ꮬ", "ꮭ",
    "ꮮ", "ꮯ", "ꮰ", "ꮱ", "ꮲ", "ꮳ", "ꮴ", "ꮵ", "ꮶ", "ꮷ",
    "ꮸ", "ꮹ", "ꮺ", "ꮻ", "ꮼ", "ꮽ", "ꮾ", "ꮿ", "U+FB05", "U+FF21",
    "U+FF22", "U+FF23", "U+FF24", "U+FF25", "U+FF26", "U+FF27", "U+FF28", "U+FF29", "U+FF2A", "U+FF2B",
    "U+FF2C", "U+FF2D", "U+FF2E", "U+FF2F", "U+FF30", "U+FF31", "U+FF32", "U+FF33", "U+FF34", "U+FF35",
    "U+FF36", "U+FF37", "U+FF38", "U+FF39", "U+FF3A" >>

\* FoldForms[i] is the simple case folding of FoldedLetters[i].
FoldForms == <<
    "a", "b", "c", "d", "e", "f", "g", "h", "i", "j",
    "k", "l", "m", "n", "o", "p", "q", "r", "s", "t",
    "u", "v", "w", "x", "y", "z", "μ", "à", "á", "â",
    "ã", "ä", "å", "æ", "ç", "è", "é", "ê", "ë", "ì",
    "í", "î", "ï", "ð", "ñ", "ò", "ó", "ô", "õ", "ö",
    "ø", "ù", "ú", "û", "ü", "ý", "þ", "U+0101", "U+0103", "U+0105",
    "U+0107", "U+0109", "U+010B", "U+010D", "U+010F", "U+0111", "U+0113", "U+0115", "U+0117", "U+0119",
    "U+011B", "U+011D", "U+011F", "U+0121", "U+0123", "U+0125", "U+0127", "U+0129", "U+012B", "U+012D",
    "U+012F", "U+0133", "U+0135", "U+0137", "U+013A", "U+013C", "U+013E", "U+0140", "U+0142", "U+0144",
    "U+0146", "U+0148", "U+014B", "U+014D", "U+014F", "U+0151", "U+0153", "U+0155", "U+0157", "U+0159",
    "U+015B", "U+015D", "U+015F", "U+0161", "U+0163", "U+0165", "U+0167", "U+0169", "U+016B", "U+016D",
    "U+016F", "U+0171", "U+0173", "U+0175", "U+0177", "ÿ", "U+017A", "U+017C", "U+017E", "s",
    "U+0253", "ƃ", "ƅ", "U+0254", "ƈ", "U+0256", "U+0257", "ƌ", "ǝ", "U+0259",
    "U+025B", "ƒ", "U+0260", "U+0263", "U+0269", "U+0268", "ƙ", "U+026F", "U+0272", "U+0275",
    "ơ", "ƣ", "ƥ", "ʀ", "ƨ", "ʃ", "ƭ", "ʈ", "ư", "ʊ",
    "ʋ", "ƴ", "ƶ", "ʒ", "ƹ", "ƽ", "ǆ", "ǆ", "ǉ", "ǉ",
    "ǌ", "ǌ", "ǎ", "ǐ", "ǒ", "ǔ", "ǖ", "ǘ", "ǚ", "ǜ",
    "ǟ", "ǡ", "ǣ", "ǥ", "ǧ", "ǩ", "ǫ", "ǭ", "ǯ", "ǳ",
    "ǳ", "ǵ", "ƕ", "ƿ", "ǹ", "ǻ", "ǽ", "ǿ", "U+0201", "U+0203",
    "U+0205", "U+0207", "U+0209", "U+020B", "U+020D", "U+020F", "U+0211", "U+0213", "U+0215", "U+0217",
    "U+0219", "U+021B", "U+021D", "U+021F", "ƞ", "U+0223", "U+0225", "U+0227", "U+0229", "U+022B",
    "U+022D", "U+022F", "U+0231", "U+0233", "U+2C65", "U+023C", "ƚ", "U+2C66", "U+0242", "ƀ",
    "ʉ", "ʌ", "U+0247", "U+0249", "U+024B", "U+024D", "U+024F", "ι", "U+0371", "U+0373",
    "U+0377", "ϳ", "ά", "έ", "ή", "ί", "ό", "ύ", "ώ", "α",
    "β", "γ", "δ", "ε", "ζ", "η", "θ", "ι", "κ", "λ",
    "μ", "ν", "ξ", "ο", "π", "ρ", "σ", "τ", "υ", "φ",
    "χ", "ψ", "ω", "ϊ", "ϋ", "σ", "ϗ", "β", "θ", "φ",
    "π", "ϙ", "ϛ", "ϝ", "ϟ", "ϡ", "ϣ", "ϥ", "ϧ", "ϩ",
    "ϫ", "ϭ", "ϯ", "κ", "ρ", "θ", "ε", "ϸ", "ϲ", "ϻ",
    "U+037B", "U+037C", "U+037D", "U+0450", "U+0451", "U+0452", "U+0453", "U+0454", "U+0455", "U+0456",
    "U+0457", "U+0458", "U+0459", "U+045A", "U+045B", "U+045C", "U+045D", "U+045E", "U+045F", "U+0430",
    "U+0431", "U+0432", "U+0433", "U+0434", "U+0435", "U+0436", "U+0437", "U+0438", "U+0439", "U+043A",
    "U+043B", "U+043C", "U+043D", "U+043E", "U+043F", "U+0440", "U+0441", "U+0442", "U+0443", "U+0444",
    "U+0445", "U+0446", "U+0447", "U+0448", "U+0449", "U+044A", "U+044B", "U+044C", "U+044D", "U+044E",
    "U+044F", "U+0461", "U+0463", "U+0465", "U+0467", "U+0469", "U+046B", "U+046D", "U+046F", "U+0471",
    "U+0473", "U+0475", "U+0477", "U+0479", "U+047B", "U+047D", "U+047F", "ҁ", "ҋ", "ҍ",
    "ҏ", "ґ", "ғ", "ҕ", "җ", "ҙ", "қ", "ҝ", "ҟ", "ҡ",
    "ң", "ҥ", "ҧ", "ҩ", "ҫ", "ҭ", "ү", "ұ", "ҳ", "ҵ",
    "ҷ", "ҹ", "һ", "ҽ", "ҿ", "ӏ", "ӂ", "ӄ", "ӆ", "ӈ",
    "ӊ", "ӌ", "ӎ", "ӑ", "ӓ", "ӕ", "ӗ", "ә", "ӛ", "ӝ",
    "ӟ", "ӡ", "ӣ", "ӥ", "ӧ", "ө", "ӫ", "ӭ", "ӯ", "ӱ",
    "ӳ", "ӵ", "ӷ", "ӹ", "ӻ", "ӽ", "ӿ", "U+0501", "U+0503", "U+0505",
    "U+0507", "U+0509", "U+050B", "U+050D", "U+050F", "U+0511", "U+0513", "U+0515", "U+0517", "U+0519",
    "U+051B", "U+051D", "U+051F", "U+0521", "U+0523", "U+0525", "U+0527", "U+0529", "U+052B", "U+052D",
    "U+052F", "U+0561", "U+0562", "U+0563", "U+0564", "U+0565", "U+0566", "U+0567", "U+0568", "U+0569",
    "U+056A", "U+056B", "U+056C", "U+056D", "U+056E", "U+056F", "U+0570", "U+0571", "U+0572", "U+0573",
    "U+0574", "U+0575", "U+0576", "U+0577", "U+0578", "U+0579", "U+057A", "U+057B", "U+057C", "U+057D",
    "U+057E", "U+057F", "ր", "ց", "ւ", "փ", "ք", "օ", "ֆ", "U+2D00",
    "U+2D01", "U+2D02", "U+2D03", "U+2D04", "U+2D05", "U+2D06", "U+2D07", "U+2D08", "U+2D09", "U+2D0A",
    "U+2D0B", "U+2D0C", "U+2D0D", "U+2D0E", "U+2D0F", "U+2D10", "U+2D11", "U+2D12", "U+2D13", "U+2D14",
    "U+2D15", "U+2D16", "U+2D17", "U+2D18", "U+2D19", "U+2D1A", "U+2D1B", "U+2D1C", "U+2D1D", "U+2D1E",
    "U+2D1F", "U+2D20", "U+2D21", "U+2D22", "U+2D23", "U+2D24", "U+2D25", "U+2D27", "U+2D2D", "Ᏸ",
    "Ᏹ", "Ᏺ", "Ᏻ", "Ᏼ", "Ᏽ", "U+0432", "U+0434", "U+043E", "U+0441", "U+0442",
    "U+0442", "U+044A", "U+0463", "U+A64B", "ᲊ", "ა", "ბ", "გ", "დ", "ე",
    "ვ", "ზ", "თ", "ი", "კ", "ლ", "მ", "ნ", "ო", "პ",
    "ჟ", "რ", "ს", "ტ", "უ", "ფ", "ქ", "ღ", "ყ", "შ",
    "ჩ", "ც", "ძ", "წ", "ჭ", "ხ", "ჯ", "ჰ", "ჱ", "ჲ",
    "ჳ", "ჴ", "ჵ", "ჶ", "ჷ", "ჸ", "ჹ", "ჺ", "ჽ", "ჾ",
    "ჿ", "U+1E01", "U+1E03", "U+1E05", "U+1E07", "U+1E09", "U+1E0B", "U+1E0D", "U+1E0F", "U+1E11",
    "U+1E13", "U+1E15", "U+1E17", "U+1E19", "U+1E1B", "U+1E1D", "U+1E1F", "U+1E21", "U+1E23", "U+1E25",
    "U+1E27", "U+1E29", "U+1E2B", "U+1E2D", "U+1E2F", "U+1E31", "U+1E33", "U+1E35", "U+1E37", "U+1E39",
    "U+1E3B", "U+1E3D", "U+1E3F", "U+1E41", "U+1E43", "U+1E45", "U+1E47", "U+1E49", "U+1E4B", "U+1E4D",
    "U+1E4F", "U+1E51", "U+1E53", "U+1E55", "U+1E57", "U+1E59", "U+1E5B", "U+1E5D", "U+1E5F", "U+1E61",
    "U+1E63", "U+1E65", "U+1E67", "U+1E69", "U+1E6B", "U+1E6D", "U+1E6F", "U+1E71", "U+1E73", "U+1E75",
    "U+1E77", "U+1E79", "U+1E7B", "U+1E7D", "U+1E7F", "ẁ", "ẃ", "ẅ", "ẇ", "ẉ",
    "ẋ", "ẍ", "ẏ", "ẑ", "ẓ", "ẕ", "U+1E61", "ß", "ạ", "ả",
    "ấ", "ầ", "ẩ", "ẫ", "ậ", "ắ", "ằ", "ẳ", "ẵ", "ặ",
    "ẹ", "ẻ", "ẽ", "ế", "ề", "ể", "ễ", "ệ", "ỉ", "ị",
    "ọ", "ỏ", "ố", "ồ", "ổ", "ỗ", "ộ", "ớ", "ờ", "ở",
    "ỡ", "ợ", "ụ", "ủ", "ứ", "ừ", "ử", "ữ", "ự", "ỳ",
    "ỵ", "ỷ", "ỹ", "ỻ", "ỽ", "ỿ", "U+1F00", "U+1F01", "U+1F02", "U+1F03",
    "U+1F04", "U+1F05", "U+1F06", "U+1F07", "U+1F10", "U+1F11", "U+1F12", "U+1F13", "U+1F14", "U+1F15",
    "U+1F20", "U+1F21", "U+1F22", "U+1F23", "U+1F24", "U+1F25", "U+1F26", "U+1F27", "U+1F30", "U+1F31",
    "U+1F32", "U+1F33", "U+1F34", "U+1F35", "U+1F36", "U+1F37", "U+1F40", "U+1F41", "U+1F42", "U+1F43",
    "U+1F44", "U+1F45", "U+1F51", "U+1F53", "U+1F55", "U+1F57", "U+1F60", "U+1F61", "U+1F62", "U+1F63",
    "U+1F64", "U+1F65", "U+1F66", "U+1F67", "ᾀ", "ᾁ", "ᾂ", "ᾃ", "ᾄ", "ᾅ",
    "ᾆ", "ᾇ", "ᾐ", "ᾑ", "ᾒ", "ᾓ", "ᾔ", "ᾕ", "ᾖ", "ᾗ",
    "ᾠ", "ᾡ", "ᾢ", "ᾣ", "ᾤ", "ᾥ", "ᾦ", "ᾧ", "ᾰ", "ᾱ",
    "U+1F70", "U+1F71", "ᾳ", "ι", "U+1F72", "U+1F73", "U+1F74", "U+1F75", "ῃ", "ΐ",
    "ῐ", "ῑ", "U+1F76", "U+1F77", "ΰ", "ῠ", "ῡ", "U+1F7A", "U+1F7B", "ῥ",
    "U+1F78", "U+1F79", "U+1F7C", "U+1F7D", "ῳ", "ω", "k", "å", "U+214E", "U+2170",
    "U+2171", "U+2172", "U+2173", "U+2174", "U+2175", "U+2176", "U+2177", "U+2178", "U+2179", "U+217A",
    "U+217B", "U+217C", "U+217D", "U+217E", "U+217F", "ↄ", "ⓐ", "ⓑ", "ⓒ", "ⓓ",
    "ⓔ", "ⓕ", "ⓖ", "ⓗ", "ⓘ", "ⓙ", "ⓚ", "ⓛ", "ⓜ", "ⓝ",
    "ⓞ", "ⓟ", "ⓠ", "ⓡ", "ⓢ", "ⓣ", "ⓤ", "ⓥ", "ⓦ", "ⓧ",
    "ⓨ", "ⓩ", "U+2C30", "U+2C31", "U+2C32", "U+2C33", "U+2C34", "U+2C35", "U+2C36", "U+2C37",
    "U+2C38", "U+2C39", "U+2C3A", "U+2C3B", "U+2C3C", "U+2C3D", "U+2C3E", "U+2C3F", "U+2C40", "U+2C41",
    "U+2C42", "U+2C43", "U+2C44", "U+2C45", "U+2C46", "U+2C47", "U+2C48", "U+2C49", "U+2C4A", "U+2C4B",
    "U+2C4C", "U+2C4D", "U+2C4E", "U+2C4F", "U+2C50", "U+2C51", "U+2C52", "U+2C53", "U+2C54", "U+2C55",
    "U+2C56", "U+2C57", "U+2C58", "U+2C59", "U+2C5A", "U+2C5B", "U+2C5C", "U+2C5D", "U+2C5E", "U+2C5F",
    "U+2C61", "U+026B", "U+1D7D", "U+027D", "U+2C68", "U+2C6A", "U+2C6C", "U+0251", "U+0271", "U+0250",
    "U+0252", "U+2C73", "U+2C76", "U+023F", "U+0240", "ⲁ", "ⲃ", "ⲅ", "ⲇ", "ⲉ",
    "ⲋ", "ⲍ", "ⲏ", "ⲑ", "ⲓ", "ⲕ", "ⲗ", "ⲙ", "ⲛ", "ⲝ",
    "ⲟ", "ⲡ", "ⲣ", "ⲥ", "ⲧ", "ⲩ", "ⲫ", "ⲭ", "ⲯ", "ⲱ",
    "ⲳ", "ⲵ", "ⲷ", "ⲹ", "ⲻ", "ⲽ", "ⲿ", "ⳁ", "ⳃ", "ⳅ",
    "ⳇ", "ⳉ", "ⳋ", "ⳍ", "ⳏ", "ⳑ", "ⳓ", "ⳕ", "ⳗ", "ⳙ",
    "ⳛ", "ⳝ", "ⳟ", "ⳡ", "ⳣ", "ⳬ", "ⳮ", "ⳳ", "U+A641", "U+A643",
    "U+A645", "U+A647", "U+A649", "U+A64B", "U+A64D", "U+A64F", "U+A651", "U+A653", "U+A655", "U+A657",
    "U+A659", "U+A65B", "U+A65D", "U+A65F", "U+A661", "U+A663", "U+A665", "U+A667", "U+A669", "U+A66B",
    "U+A66D", "ꚁ", "ꚃ", "ꚅ", "ꚇ", "ꚉ", "ꚋ", "ꚍ", "ꚏ", "ꚑ",
    "ꚓ", "ꚕ", "ꚗ", "ꚙ", "ꚛ", "U+A723", "U+A725", "U+A727", "U+A729", "U+A72B",
    "U+A72D", "U+A72F", "U+A733", "U+A735", "U+A737", "U+A739", "U+A73B", "U+A73D", "U+A73F", "U+A741",
    "U+A743", "U+A745", "U+A747", "U+A749", "U+A74B", "U+A74D", "U+A74F", "U+A751", "U+A753", "U+A755",
    "U+A757", "U+A759", "U+A75B", "U+A75D", "U+A75F", "U+A761", "U+A763", "U+A765", "U+A767", "U+A769",
    "U+A76B", "U+A76D", "U+A76F", "U+A77A", "U+A77C", "U+1D79", "U+A77F", "ꞁ", "ꞃ", "ꞅ",
    "ꞇ", "ꞌ", "U+0265", "ꞑ", "ꞓ", "ꞗ", "ꞙ", "ꞛ", "ꞝ", "ꞟ",
    "ꞡ", "ꞣ", "ꞥ", "ꞧ", "ꞩ", "U+0266", "U+025C", "U+0261", "U+026C", "U+026A",
    "ʞ", "ʇ", "ʝ", "U+AB53", "ꞵ", "ꞷ", "ꞹ", "ꞻ", "ꞽ", "ꞿ",
    "ꟁ", "ꟃ", "ꞔ", "ʂ", "ᶎ", "ꟈ", "ꟊ", "U+0264", "ꟍ", "꟏",
    "ꟑ", "ꟓ", "ꟕ", "ꟗ", "ꟙ", "ꟛ", "ƛ", "ꟶ", "Ꭰ", "Ꭱ",
    "Ꭲ", "Ꭳ", "Ꭴ", "Ꭵ", "Ꭶ", "Ꭷ", "Ꭸ", "Ꭹ", "Ꭺ", "Ꭻ",
    "Ꭼ", "Ꭽ", "Ꭾ", "Ꭿ", "Ꮀ", "Ꮁ", "Ꮂ", "Ꮃ", "Ꮄ", "Ꮅ",
    "Ꮆ", "Ꮇ", "Ꮈ", "Ꮉ", "Ꮊ", "Ꮋ", "Ꮌ", "Ꮍ", "Ꮎ", "Ꮏ",
    "Ꮐ", "Ꮑ", "Ꮒ", "Ꮓ", "Ꮔ", "Ꮕ", "Ꮖ", "Ꮗ", "Ꮘ", "Ꮙ",
    "Ꮚ", "Ꮛ", "Ꮜ", "Ꮝ", "Ꮞ", "Ꮟ", "Ꮠ", "Ꮡ", "Ꮢ", "Ꮣ",
    "Ꮤ", "Ꮥ", "Ꮦ", "Ꮧ", "Ꮨ", "Ꮩ", "Ꮪ", "Ꮫ", "Ꮬ", "Ꮭ",
    "Ꮮ", "Ꮯ", "Ꮰ", "Ꮱ", "Ꮲ", "Ꮳ", "Ꮴ", "Ꮵ", "Ꮶ", "Ꮷ",
    "Ꮸ", "Ꮹ", "Ꮺ", "Ꮻ", "Ꮼ", "Ꮽ", "Ꮾ", "Ꮿ", "U+FB06", "U+FF41",
    "U+FF42", "U+FF43", "U+FF44", "U+FF45", "U+FF46", "U+FF47", "U+FF48", "U+FF49", "U+FF4A", "U+FF4B",
    "U+FF4C", "U+FF4D", "U+FF4E", "U+FF4F", "U+FF50", "U+FF51", "U+FF52", "U+FF53", "U+FF54", "U+FF55",
    "U+FF56", "U+FF57", "U+FF58", "U+FF59", "U+FF5A" >>

\* Every character beyond U+FFFF that simple case folding changes.
AstralFolded == <<
    <<"U+D801","U+DC00">>, <<"U+D801","U+DC01">>, <<"U+D801","U+DC02">>, <<"U+D801","U+DC03">>,
    <<"U+D801","U+DC04">>, <<"U+D801","U+DC05">>, <<"U+D801","U+DC06">>, <<"U+D801","U+DC07">>,
    <<"U+D801","U+DC08">>, <<"U+D801","U+DC09">>, <<"U+D801","U+DC0A">>, <<"U+D801","U+DC0B">>,
    <<"U+D801","U+DC0C">>, <<"U+D801","U+DC0D">>, <<"U+D801","U+DC0E">>, <<"U+D801","U+DC0F">>,
    <<"U+D801","U+DC10">>, <<"U+D801","U+DC11">>, <<"U+D801","U+DC12">>, <<"U+D801","U+DC13">>,
    <<"U+D801","U+DC14">>, <<"U+D801","U+DC15">>, <<"U+D801","U+DC16">>, <<"U+D801","U+DC17">>,
    <<"U+D801","U+DC18">>, <<"U+D801","U+DC19">>, <<"U+D801","U+DC1A">>, <<"U+D801","U+DC1B">>,
    <<"U+D801","U+DC1C">>, <<"U+D801","U+DC1D">>, <<"U+D801","U+DC1E">>, <<"U+D801","U+DC1F">>,
    <<"U+D801","U+DC20">>, <<"U+D801","U+DC21">>, <<"U+D801","U+DC22">>, <<"U+D801","U+DC23">>,
    <<"U+D801","U+DC24">>, <<"U+D801","U+DC25">>, <<"U+D801","U+DC26">>, <<"U+D801","U+DC27">>,
    <<"U+D801","U+DCB0">>, <<"U+D801","U+DCB1">>, <<"U+D801","U+DCB2">>, <<"U+D801","U+DCB3">>,
    <<"U+D801","U+DCB4">>, <<"U+D801","U+DCB5">>, <<"U+D801","U+DCB6">>, <<"U+D801","U+DCB7">>,
    <<"U+D801","U+DCB8">>, <<"U+D801","U+DCB9">>, <<"U+D801","U+DCBA">>, <<"U+D801","U+DCBB">>,
    <<"U+D801","U+DCBC">>, <<"U+D801","U+DCBD">>, <<"U+D801","U+DCBE">>, <<"U+D801","U+DCBF">>,
    <<"U+D801","U+DCC0">>, <<"U+D801","U+DCC1">>, <<"U+D801","U+DCC2">>, <<"U+D801","U+DCC3">>,
    <<"U+D801","U+DCC4">>, <<"U+D801","U+DCC5">>, <<"U+D801","U+DCC6">>, <<"U+D801","U+DCC7">>,
    <<"U+D801","U+DCC8">>, <<"U+D801","U+DCC9">>, <<"U+D801","U+DCCA">>, <<"U+D801","U+DCCB">>,
    <<"U+D801","U+DCCC">>, <<"U+D801","U+DCCD">>, <<"U+D801","U+DCCE">>, <<"U+D801","U+DCCF">>,
    <<"U+D801","U+DCD0">>, <<"U+D801","U+DCD1">>, <<"U+D801","U+DCD2">>, <<"U+D801","U+DCD3">>,
    <<"U+D801","U+DD70">>, <<"U+D801","U+DD71">>, <<"U+D801","U+DD72">>, <<"U+D801","U+DD73">>,
    <<"U+D801","U+DD74">>, <<"U+D801","U+DD75">>, <<"U+D801","U+DD76">>, <<"U+D801","U+DD77">>,
    <<"U+D801","U+DD78">>, <<"U+D801","U+DD79">>, <<"U+D801","U+DD7A">>, <<"U+D801","U+DD7C">>,
    <<"U+D801","U+DD7D">>, <<"U+D801","U+DD7E">>, <<"U+D801","U+DD7F">>, <<"U+D801","U+DD80">>,
    <<"U+D801","U+DD81">>, <<"U+D801","U+DD82">>, <<"U+D801","U+DD83">>, <<"U+D801","U+DD84">>,
    <<"U+D801","U+DD85">>, <<"U+D801","U+DD86">>, <<"U+D801","U+DD87">>, <<"U+D801","U+DD88">>,
    <<"U+D801","U+DD89">>, <<"U+D801","U+DD8A">>, <<"U+D801","U+DD8C">>, <<"U+D801","U+DD8D">>,
    <<"U+D801","U+DD8E">>, <<"U+D801","U+DD8F">>, <<"U+D801","U+DD90">>, <<"U+D801","U+DD91">>,
    <<"U+D801","U+DD92">>, <<"U+D801","U+DD94">>, <<"U+D801","U+DD95">>, <<"U+D803","U+DC80">>,
    <<"U+D803","U+DC81">>, <<"U+D803","U+DC82">>, <<"U+D803","U+DC83">>, <<"U+D803","U+DC84">>,
    <<"U+D803","U+DC85">>, <<"U+D803","U+DC86">>, <<"U+D803","U+DC87">>, <<"U+D803","U+DC88">>,
    <<"U+D803","U+DC89">>, <<"U+D803","U+DC8A">>, <<"U+D803","U+DC8B">>, <<"U+D803","U+DC8C">>,
    <<"U+D803","U+DC8D">>, <<"U+D803","U+DC8E">>, <<"U+D803","U+DC8F">>, <<"U+D803","U+DC90">>,
    <<"U+D803","U+DC91">>, <<"U+D803","U+DC92">>, <<"U+D803","U+DC93">>, <<"U+D803","U+DC94">>,
    <<"U+D803","U+DC95">>, <<"U+D803","U+DC96">>, <<"U+D803","U+DC97">>, <<"U+D803","U+DC98">>,
    <<"U+D803","U+DC99">>, <<"U+D803","U+DC9A">>, <<"U+D803","U+DC9B">>, <<"U+D803","U+DC9C">>,
    <<"U+D803","U+DC9D">>, <<"U+D803","U+DC9E">>, <<"U+D803","U+DC9F">>, <<"U+D803","U+DCA0">>,
    <<"U+D803","U+DCA1">>, <<"U+D803","U+DCA2">>, <<"U+D803","U+DCA3">>, <<"U+D803","U+DCA4">>,
    <<"U+D803","U+DCA5">>, <<"U+D803","U+DCA6">>, <<"U+D803","U+DCA7">>, <<"U+D803","U+DCA8">>,
    <<"U+D803","U+DCA9">>, <<"U+D803","U+DCAA">>, <<"U+D803","U+DCAB">>, <<"U+D803","U+DCAC">>,
    <<"U+D803","U+DCAD">>, <<"U+D803","U+DCAE">>, <<"U+D803","U+DCAF">>, <<"U+D803","U+DCB0">>,
    <<"U+D803","U+DCB1">>, <<"U+D803","U+DCB2">>, <<"U+D803","U+DD50">>, <<"U+D803","U+DD51">>,
    <<"U+D803","U+DD52">>, <<"U+D803","U+DD53">>, <<"U+D803","U+DD54">>, <<"U+D803","U+DD55">>,
    <<"U+D803","U+DD56">>, <<"U+D803","U+DD57">>, <<"U+D803","U+DD58">>, <<"U+D803","U+DD59">>,
    <<"U+D803","U+DD5A">>, <<"U+D803","U+DD5B">>, <<"U+D803","U+DD5C">>, <<"U+D803","U+DD5D">>,
    <<"U+D803","U+DD5E">>, <<"U+D803","U+DD5F">>, <<"U+D803","U+DD60">>, <<"U+D803","U+DD61">>,
    <<"U+D803","U+DD62">>, <<"U+D803","U+DD63">>, <<"U+D803","U+DD64">>, <<"U+D803","U+DD65">>,
    <<"U+D806","U+DCA0">>, <<"U+D806","U+DCA1">>, <<"U+D806","U+DCA2">>, <<"U+D806","U+DCA3">>,
    <<"U+D806","U+DCA4">>, <<"U+D806","U+DCA5">>, <<"U+D806","U+DCA6">>, <<"U+D806","U+DCA7">>,
    <<"U+D806","U+DCA8">>, <<"U+D806","U+DCA9">>, <<"U+D806","U+DCAA">>, <<"U+D806","U+DCAB">>,
    <<"U+D806","U+DCAC">>, <<"U+D806","U+DCAD">>, <<"U+D806","U+DCAE">>, <<"U+D806","U+DCAF">>,
    <<"U+D806","U+DCB0">>, <<"U+D806","U+DCB1">>, <<"U+D806","U+DCB2">>, <<"U+D806","U+DCB3">>,
    <<"U+D806","U+DCB4">>, <<"U+D806","U+DCB5">>, <<"U+D806","U+DCB6">>, <<"U+D806","U+DCB7">>,
    <<"U+D806","U+DCB8">>, <<"U+D806","U+DCB9">>, <<"U+D806","U+DCBA">>, <<"U+D806","U+DCBB">>,
    <<"U+D806","U+DCBC">>, <<"U+D806","U+DCBD">>, <<"U+D806","U+DCBE">>, <<"U+D806","U+DCBF">>,
    <<"U+D81B","U+DE40">>, <<"U+D81B","U+DE41">>, <<"U+D81B","U+DE42">>, <<"U+D81B","U+DE43">>,
    <<"U+D81B","U+DE44">>, <<"U+D81B","U+DE45">>, <<"U+D81B","U+DE46">>, <<"U+D81B","U+DE47">>,
    <<"U+D81B","U+DE48">>, <<"U+D81B","U+DE49">>, <<"U+D81B","U+DE4A">>, <<"U+D81B","U+DE4B">>,
    <<"U+D81B","U+DE4C">>, <<"U+D81B","U+DE4D">>, <<"U+D81B","U+DE4E">>, <<"U+D81B","U+DE4F">>,
    <<"U+D81B","U+DE50">>, <<"U+D81B","U+DE51">>, <<"U+D81B","U+DE52">>, <<"U+D81B","U+DE53">>,
    <<"U+D81B","U+DE54">>, <<"U+D81B","U+DE55">>, <<"U+D81B","U+DE56">>, <<"U+D81B","U+DE57">>,
    <<"U+D81B","U+DE58">>, <<"U+D81B","U+DE59">>, <<"U+D81B","U+DE5A">>, <<"U+D81B","U+DE5B">>,
    <<"U+D81B","U+DE5C">>, <<"U+D81B","U+DE5D">>, <<"U+D81B","U+DE5E">>, <<"U+D81B","U+DE5F">>,
    <<"U+D81B","U+DEA0">>, <<"U+D81B","U+DEA1">>, <<"U+D81B","U+DEA2">>, <<"U+D81B","U+DEA3">>,
    <<"U+D81B","U+DEA4">>, <<"U+D81B","U+DEA5">>, <<"U+D81B","U+DEA6">>, <<"U+D81B","U+DEA7">>,
    <<"U+D81B","U+DEA8">>, <<"U+D81B","U+DEA9">>, <<"U+D81B","U+DEAA">>, <<"U+D81B","U+DEAB">>,
    <<"U+D81B","U+DEAC">>, <<"U+D81B","U+DEAD">>, <<"U+D81B","U+DEAE">>, <<"U+D81B","U+DEAF">>,
    <<"U+D81B","U+DEB0">>, <<"U+D81B","U+DEB1">>, <<"U+D81B","U+DEB2">>, <<"U+D81B","U+DEB3">>,
    <<"U+D81B","U+DEB4">>, <<"U+D81B","U+DEB5">>, <<"U+D81B","U+DEB6">>, <<"U+D81B","U+DEB7">>,
    <<"U+D81B","U+DEB8">>, <<"U+D83A","U+DD00">>, <<"U+D83A","U+DD01">>, <<"U+D83A","U+DD02">>,
    <<"U+D83A","U+DD03">>, <<"U+D83A","U+DD04">>, <<"U+D83A","U+DD05">>, <<"U+D83A","U+DD06">>,
    <<"U+D83A","U+DD07">>, <<"U+D83A","U+DD08">>, <<"U+D83A","U+DD09">>, <<"U+D83A","U+DD0A">>,
    <<"U+D83A","U+DD0B">>, <<"U+D83A","U+DD0C">>, <<"U+D83A","U+DD0D">>, <<"U+D83A","U+DD0E">>,
    <<"U+D83A","U+DD0F">>, <<"U+D83A","U+DD10">>, <<"U+D83A","U+DD11">>, <<"U+D83A","U+DD12">>,
    <<"U+D83A","U+DD13">>, <<"U+D83A","U+DD14">>, <<"U+D83A","U+DD15">>, <<"U+D83A","U+DD16">>,
    <<"U+D83A","U+DD17">>, <<"U+D83A","U+DD18">>, <<"U+D83A","U+DD19">>, <<"U+D83A","U+DD1A">>,
    <<"U+D83A","U+DD1B">>, <<"U+D83A","U+DD1C">>, <<"U+D83A","U+DD1D">>, <<"U+D83A","U+DD1E">>,
    <<"U+D83A","U+DD1F">>, <<"U+D83A","U+DD20">>, <<"U+D83A","U+DD21">> >>

\* AstralFoldForms[i] is the simple case folding of AstralFolded[i].
AstralFoldForms == <<
    <<"U+D801","U+DC28">>, <<"U+D801","U+DC29">>, <<"U+D801","U+DC2A">>, <<"U+D801","U+DC2B">>,
    <<"U+D801","U+DC2C">>, <<"U+D801","U+DC2D">>, <<"U+D801","U+DC2E">>, <<"U+D801","U+DC2F">>,
    <<"U+D801","U+DC30">>, <<"U+D801","U+DC31">>, <<"U+D801","U+DC32">>, <<"U+D801","U+DC33">>,
    <<"U+D801","U+DC34">>, <<"U+D801","U+DC35">>, <<"U+D801","U+DC36">>, <<"U+D801","U+DC37">>,
    <<"U+D801","U+DC38">>, <<"U+D801","U+DC39">>, <<"U+D801","U+DC3A">>, <<"U+D801","U+DC3B">>,
    <<"U+D801","U+DC3C">>, <<"U+D801","U+DC3D">>, <<"U+D801","U+DC3E">>, <<"U+D801","U+DC3F">>,
    <<"U+D801","U+DC40">>, <<"U+D801","U+DC41">>, <<"U+D801","U+DC42">>, <<"U+D801","U+DC43">>,
    <<"U+D801","U+DC44">>, <<"U+D801","U+DC45">>, <<"U+D801","U+DC46">>, <<"U+D801","U+DC47">>,
    <<"U+D801","U+DC48">>, <<"U+D801","U+DC49">>, <<"U+D801","U+DC4A">>, <<"U+D801","U+DC4B">>,
    <<"U+D801","U+DC4C">>, <<"U+D801","U+DC4D">>, <<"U+D801","U+DC4E">>, <<"U+D801","U+DC4F">>,
    <<"U+D801","U+DCD8">>, <<"U+D801","U+DCD9">>, <<"U+D801","U+DCDA">>, <<"U+D801","U+DCDB">>,
    <<"U+D801","U+DCDC">>, <<"U+D801","U+DCDD">>, <<"U+D801","U+DCDE">>, <<"U+D801","U+DCDF">>,
    <<"U+D801","U+DCE0">>, <<"U+D801","U+DCE1">>, <<"U+D801","U+DCE2">>, <<"U+D801","U+DCE3">>,
    <<"U+D801","U+DCE4">>, <<"U+D801","U+DCE5">>, <<"U+D801","U+DCE6">>, <<"U+D801","U+DCE7">>,
    <<"U+D801","U+DCE8">>, <<"U+D801","U+DCE9">>, <<"U+D801","U+DCEA">>, <<"U+D801","U+DCEB">>,
    <<"U+D801","U+DCEC">>, <<"U+D801","U+DCED">>, <<"U+D801","U+DCEE">>, <<"U+D801","U+DCEF">>,
    <<"U+D801","U+DCF0">>, <<"U+D801","U+DCF1">>, <<"U+D801","U+DCF2">>, <<"U+D801","U+DCF3">>,
    <<"U+D801","U+DCF4">>, <<"U+D801","U+DCF5">>, <<"U+D801","U+DCF6">>, <<"U+D801","U+DCF7">>,
    <<"U+D801","U+DCF8">>, <<"U+D801","U+DCF9">>, <<"U+D801","U+DCFA">>, <<"U+D801","U+DCFB">>,
    <<"U+D801","U+DD97">>, <<"U+D801","U+DD98">>, <<"U+D801","U+DD99">>, <<"U+D801","U+DD9A">>,
    <<"U+D801","U+DD9B">>, <<"U+D801","U+DD9C">>, <<"U+D801","U+DD9D">>, <<"U+D801","U+DD9E">>,
    <<"U+D801","U+DD9F">>, <<"U+D801","U+DDA0">>, <<"U+D801","U+DDA1">>, <<"U+D801","U+DDA3">>,
    <<"U+D801","U+DDA4">>, <<"U+D801","U+DDA5">>, <<"U+D801","U+DDA6">>, <<"U+D801","U+DDA7">>,
    <<"U+D801","U+DDA8">>, <<"U+D801","U+DDA9">>, <<"U+D801","U+DDAA">>, <<"U+D801","U+DDAB">>,
    <<"U+D801","U+DDAC">>, <<"U+D801","U+DDAD">>, <<"U+D801","U+DDAE">>, <<"U+D801","U+DDAF">>,
    <<"U+D801","U+DDB0">>, <<"U+D801","U+DDB1">>, <<"U+D801","U+DDB3">>, <<"U+D801","U+DDB4">>,
    <<"U+D801","U+DDB5">>, <<"U+D801","U+DDB6">>, <<"U+D801","U+DDB7">>, <<"U+D801","U+DDB8">>,
    <<"U+D801","U+DDB9">>, <<"U+D801","U+DDBB">>, <<"U+D801","U+DDBC">>, <<"U+D803","U+DCC0">>,
    <<"U+D803","U+DCC1">>, <<"U+D803","U+DCC2">>, <<"U+D803","U+DCC3">>, <<"U+D803","U+DCC4">>,
    <<"U+D803","U+DCC5">>, <<"U+D803","U+DCC6">>, <<"U+D803","U+DCC7">>, <<"U+D803","U+DCC8">>,
    <<"U+D803","U+DCC9">>, <<"U+D803","U+DCCA">>, <<"U+D803","U+DCCB">>, <<"U+D803","U+DCCC">>,
    <<"U+D803","U+DCCD">>, <<"U+D803","U+DCCE">>, <<"U+D803","U+DCCF">>, <<"U+D803","U+DCD0">>,
    <<"U+D803","U+DCD1">>, <<"U+D803","U+DCD2">>, <<"U+D803","U+DCD3">>, <<"U+D803","U+DCD4">>,
    <<"U+D803","U+DCD5">>, <<"U+D803","U+DCD6">>, <<"U+D803","U+DCD7">>, <<"U+D803","U+DCD8">>,
    <<"U+D803","U+DCD9">>, <<"U+D803","U+DCDA">>, <<"U+D803","U+DCDB">>, <<"U+D803","U+DCDC">>,
    <<"U+D803","U+DCDD">>, <<"U+D803","U+DCDE">>, <<"U+D803","U+DCDF">>, <<"U+D803","U+DCE0">>,
    <<"U+D803","U+DCE1">>, <<"U+D803","U+DCE2">>, <<"U+D803","U+DCE3">>, <<"U+D803","U+DCE4">>,
    <<"U+D803","U+DCE5">>, <<"U+D803","U+DCE6">>, <<"U+D803","U+DCE7">>, <<"U+D803","U+DCE8">>,
    <<"U+D803","U+DCE9">>, <<"U+D803","U+DCEA">>, <<"U+D803","U+DCEB">>, <<"U+D803","U+DCEC">>,
    <<"U+D803","U+DCED">>, <<"U+D803","U+DCEE">>, <<"U+D803","U+DCEF">>, <<"U+D803","U+DCF0">>,
    <<"U+D803","U+DCF1">>, <<"U+D803","U+DCF2">>, <<"U+D803","U+DD70">>, <<"U+D803","U+DD71">>,
    <<"U+D803","U+DD72">>, <<"U+D803","U+DD73">>, <<"U+D803","U+DD74">>, <<"U+D803","U+DD75">>,
    <<"U+D803","U+DD76">>, <<"U+D803","U+DD77">>, <<"U+D803","U+DD78">>, <<"U+D803","U+DD79">>,
    <<"U+D803","U+DD7A">>, <<"U+D803","U+DD7B">>, <<"U+D803","U+DD7C">>, <<"U+D803","U+DD7D">>,
    <<"U+D803","U+DD7E">>, <<"U+D803","U+DD7F">>, <<"U+D803","U+DD80">>, <<"U+D803","U+DD81">>,
    <<"U+D803","U+DD82">>, <<"U+D803","U+DD83">>, <<"U+D803","U+DD84">>, <<"U+D803","U+DD85">>,
    <<"U+D806","U+DCC0">>, <<"U+D806","U+DCC1">>, <<"U+D806","U+DCC2">>, <<"U+D806","U+DCC3">>,
    <<"U+D806","U+DCC4">>, <<"U+D806","U+DCC5">>, <<"U+D806","U+DCC6">>, <<"U+D806","U+DCC7">>,
    <<"U+D806","U+DCC8">>, <<"U+D806","U+DCC9">>, <<"U+D806","U+DCCA">>, <<"U+D806","U+DCCB">>,
    <<"U+D806","U+DCCC">>, <<"U+D806","U+DCCD">>, <<"U+D806","U+DCCE">>, <<"U+D806","U+DCCF">>,
    <<"U+D806","U+DCD0">>, <<"U+D806","U+DCD1">>, <<"U+D806","U+DCD2">>, <<"U+D806","U+DCD3">>,
    <<"U+D806","U+DCD4">>, <<"U+D806","U+DCD5">>, <<"U+D806","U+DCD6">>, <<"U+D806","U+DCD7">>,
    <<"U+D806","U+DCD8">>, <<"U+D806","U+DCD9">>, <<"U+D806","U+DCDA">>, <<"U+D806","U+DCDB">>,
    <<"U+D806","U+DCDC">>, <<"U+D806","U+DCDD">>, <<"U+D806","U+DCDE">>, <<"U+D806","U+DCDF">>,
    <<"U+D81B","U+DE60">>, <<"U+D81B","U+DE61">>, <<"U+D81B","U+DE62">>, <<"U+D81B","U+DE63">>,
    <<"U+D81B","U+DE64">>, <<"U+D81B","U+DE65">>, <<"U+D81B","U+DE66">>, <<"U+D81B","U+DE67">>,
    <<"U+D81B","U+DE68">>, <<"U+D81B","U+DE69">>, <<"U+D81B","U+DE6A">>, <<"U+D81B","U+DE6B">>,
    <<"U+D81B","U+DE6C">>, <<"U+D81B","U+DE6D">>, <<"U+D81B","U+DE6E">>, <<"U+D81B","U+DE6F">>,
    <<"U+D81B","U+DE70">>, <<"U+D81B","U+DE71">>, <<"U+D81B","U+DE72">>, <<"U+D81B","U+DE73">>,
    <<"U+D81B","U+DE74">>, <<"U+D81B","U+DE75">>, <<"U+D81B","U+DE76">>, <<"U+D81B","U+DE77">>,
    <<"U+D81B","U+DE78">>, <<"U+D81B","U+DE79">>, <<"U+D81B","U+DE7A">>, <<"U+D81B","U+DE7B">>,
    <<"U+D81B","U+DE7C">>, <<"U+D81B","U+DE7D">>, <<"U+D81B","U+DE7E">>, <<"U+D81B","U+DE7F">>,
    <<"U+D81B","U+DEBB">>, <<"U+D81B","U+DEBC">>, <<"U+D81B","U+DEBD">>, <<"U+D81B","U+DEBE">>,
    <<"U+D81B","U+DEBF">>, <<"U+D81B","U+DEC0">>, <<"U+D81B","U+DEC1">>, <<"U+D81B","U+DEC2">>,
    <<"U+D81B","U+DEC3">>, <<"U+D81B","U+DEC4">>, <<"U+D81B","U+DEC5">>, <<"U+D81B","U+DEC6">>,
    <<"U+D81B","U+DEC7">>, <<"U+D81B","U+DEC8">>, <<"U+D81B","U+DEC9">>, <<"U+D81B","U+DECA">>,
    <<"U+D81B","U+DECB">>, <<"U+D81B","U+DECC">>, <<"U+D81B","U+DECD">>, <<"U+D81B","U+DECE">>,
    <<"U+D81B","U+DECF">>, <<"U+D81B","U+DED0">>, <<"U+D81B","U+DED1">>, <<"U+D81B","U+DED2">>,
    <<"U+D81B","U+DED3">>, <<"U+D83A","U+DD22">>, <<"U+D83A","U+DD23">>, <<"U+D83A","U+DD24">>,
    <<"U+D83A","U+DD25">>, <<"U+D83A","U+DD26">>, <<"U+D83A","U+DD27">>, <<"U+D83A","U+DD28">>,
    <<"U+D83A","U+DD29">>, <<"U+D83A","U+DD2A">>, <<"U+D83A","U+DD2B">>, <<"U+D83A","U+DD2C">>,
    <<"U+D83A","U+DD2D">>, <<"U+D83A","U+DD2E">>, <<"U+D83A","U+DD2F">>, <<"U+D83A","U+DD30">>,
    <<"U+D83A","U+DD31">>, <<"U+D83A","U+DD32">>, <<"U+D83A","U+DD33">>, <<"U+D83A","U+DD34">>,
    <<"U+D83A","U+DD35">>, <<"U+D83A","U+DD36">>, <<"U+D83A","U+DD37">>, <<"U+D83A","U+DD38">>,
    <<"U+D83A","U+DD39">>, <<"U+D83A","U+DD3A">>, <<"U+D83A","U+DD3B">>, <<"U+D83A","U+DD3C">>,
    <<"U+D83A","U+DD3D">>, <<"U+D83A","U+DD3E">>, <<"U+D83A","U+DD3F">>, <<"U+D83A","U+DD40">>,
    <<"U+D83A","U+DD41">>, <<"U+D83A","U+DD42">>, <<"U+D83A","U+DD43">> >>

\* toUpperCase as a function on the code units of CasedLetters
UpperOf ==
    [c \in {CasedLetters[i] : i \in DOMAIN CasedLetters} |->
        UpperForms[CHOOSE i \in DOMAIN CasedLetters : CasedLetters[i] = c]]

\* toUpperCase as a function on the characters of AstralCased
AstralUpperOf ==
    [p \in {AstralCased[i] : i \in DOMAIN AstralCased} |->
        AstralUpperForms[CHOOSE i \in DOMAIN AstralCased : AstralCased[i] = p]]

\* simple case folding as a function on the code units of FoldedLetters
FoldOf ==
    [c \in {FoldedLetters[i] : i \in DOMAIN FoldedLetters} |->
        FoldForms[CHOOSE i \in DOMAIN FoldedLetters : FoldedLetters[i] = c]]

\* simple case folding as a function on the characters of AstralFolded
AstralFoldOf ==
    [p \in {AstralFolded[i] : i \in DOMAIN AstralFolded} |->
        AstralFoldForms[CHOOSE i \in DOMAIN AstralFolded : AstralFolded[i] = p]]

\* String.prototype.toUpperCase on a string of one code unit of the Basic
\* Multilingual Plane (a surrogate on its own stays as it is)
UpperChar(c) ==
    IF \E i \in DOMAIN LowerLetters : LowerLetters[i] = c
    THEN <<UpperLetters[CHOOSE i \in DOMAIN LowerLetters : LowerLetters[i] = c]>>
    ELSE IF c \in DOMAIN UpperOf THEN UpperOf[c]
    ELSE <<c>>

\* toUpperCase on a character beyond U+FFFF, p its two code units
UpperPair(p) == IF p \in DOMAIN AstralUpperOf THEN AstralUpperOf[p] ELSE p

\* a surrogate pair begins at offset pos of s
isPair(s, pos) ==
    /\ pos >= 0
    /\ pos + 2 <= Len(s)
    /\ s[pos + 1] \in HighSurrogates
    /\ s[pos + 2] \in LowSurrogates

RECURSIVE toUpperCase(_)
\* name.toUpperCase(): character by character, a surrogate pair being one
\* character
toUpperCase(s) ==
    IF s = <<>> THEN <<>>
    ELSE IF isPair(s, 0)
    THEN UpperPair(<<s[1], s[2]>>) \o toUpperCase(SubSeq(s, 3, Len(s)))
    ELSE UpperChar(Head(s)) \o toUpperCase(Tail(s))

\* Canonicalize of an ignoreCase pattern without the u or v flag, on one
\* code unit: the upper-case form when that is one code unit, and not an
\* ASCII one for a code unit outside ASCII ("U+0131" and "U+017F" give "I"
\* and "S"); the code unit itself otherwise
CanonicalizeUnit(c) ==
    IF Len(UpperChar(c)) # 1 THEN <<c>>
    ELSE IF c \in {"U+0131", "U+017F"} THEN <<c>>
    ELSE UpperChar(c)

\* Canonicalize with the u or v flag, on one character: its simple case
\* folding
CanonicalizeCodePoint(ch) ==
    IF Len(ch) = 2
    THEN IF ch \in DOMAIN AstralFoldOf THEN AstralFoldOf[ch] ELSE ch
    ELSE IF ch[1] \in DOMAIN FoldOf THEN <<FoldOf[ch[1]]>> ELSE ch

\* Canonicalize(ch) of the pattern semantics; ch is a string of one code
\* unit, or the two code units of one character under the u or v flag
Canonicalize(ch, unicode) ==
    IF unicode THEN CanonicalizeCodePoint(ch) ELSE CanonicalizeUnit(ch[1])

\* name.indexOf(c): the first offset of c, or -1
indexOf(s, c) ==
    IF \E k \in 1..Len(s) : s[k] = c
    THEN (CHOOSE k \in 1..Len(s) : s[k] = c /\ \A j \in 1..(k-1) : s[j] # c) - 1
    ELSE -1

\* one character in lower case
LowerChar(c) ==
    IF \E i \in DOMAIN UpperLetters : UpperLetters[i] = c
    THEN LowerLetters[CHOOSE i \in DOMAIN UpperLetters : UpperLetters[i] = c]
    ELSE c

\* value.toLowerCase().substr(start): the remainder with its case folded
substrLowered(s, start) == [k \in 1..(Len(s) - start) |-> LowerChar(s[start + k])]

\* value.substr(start)
substr(s, start) == SubSeq(s, start + 1, Len(s))

\* value.substr(start, length)
substr2(s, start, length) ==
    SubSeq(s, start + 1, IF start + length > Len(s) THEN Len(s) ELSE start + length)

RECURSIVE dropLeading(_)
\* the match of ^_+ removed
dropLeading(s) ==
    IF Len(s) > 0 /\ s[1] = "_" THEN dropLeading(Tail(s)) ELSE s

RECURSIVE dropTrailing(_)
\* the match of _+$ removed
dropTrailing(s) ==
    IF Len(s) > 0 /\ s[Len(s)] = "_"
    THEN dropTrailing(SubSeq(s, 1, Len(s) - 1))
    ELSE s

\* name.replace(/^_|_$/g, ""): one underscore at each end only
trimOneUnderscore(s) ==
    SubSeq(s, IF Len(s) > 0 /\ s[1] = "_" THEN 2 ELSE 1,
              IF Len(s) > 1 /\ s[Len(s)] = "_" THEN Len(s) - 1 ELSE Len(s))

\* name.replace(/^_+|_+$/g, "")
trimUnderscores(s) == dropTrailing(dropLeading(s))

(***************************************************************************)
(* RegExp.prototype.exec and test.                                         *)
(***************************************************************************)
\* The character at offset pos of s as the matcher reads it: one code unit,
\* or under the u or v flag a whole surrogate pair.
charAt(s, pos, unicode) ==
    IF unicode /\ isPair(s, pos) THEN <<s[pos + 1], s[pos + 2]>> ELSE <<s[pos + 1]>>

\* one character against a character class (a set of characters), under the
\* flags of re
charMatches(ch, cls, re) ==
    IF re.ignoreCase
    THEN \E d \in cls : Canonicalize(d, re.unicode) = Canonicalize(ch, re.unicode)
    ELSE ch \in cls

RECURSIVE stops(_, _, _, _)
\* stops from pos, ch being the character at pos
stopsAt(s, pos, cls, re, ch) ==
    IF charMatches(ch, cls, re)
    THEN <<pos + Len(ch)>> \o stops(s, pos + Len(ch), cls, re)
    ELSE <<>>

\* the offsets reached from offset pos of s by one, two, ... characters of
\* the class in a row
stops(s, pos, cls, re) ==
    IF pos >= Len(s) THEN <<>> ELSE stopsAt(s, pos, cls, re, charAt(s, pos, re.unicode))

\* The offsets after an atom with quantifier q matched at offset pos, in the
\* order the greedy backtracking matcher tries them; st is the stops of the
\* atom's class from pos.
triesOf(q, pos, st) ==
    CASE q = "1" -> IF Len(st) >= 1 THEN <<st[1]>> ELSE <<>>
      [] q = "?" -> IF Len(st) >= 1 THEN <<st[1], pos>> ELSE <<pos>>
      [] OTHER   -> [i \in 1..Len(st) |-> st[Len(st) + 1 - i]]

tries(a, s, pos, re) == triesOf(a.q, pos, stops(s, pos, a.cls, re))

\* ends maps each offset tried, in order, to the end offset of the match
\* found there or to -1: the first offset that matched, or -1
leftmost(ends) ==
    IF \A p \in DOMAIN ends : ends[p] < 0 THEN -1
    ELSE CHOOSE p \in DOMAIN ends :
             ends[p] >= 0 /\ \A p2 \in DOMAIN ends : p2 < p => ends[p2] < 0

endAt(ends, p) == IF p = -1 THEN -1 ELSE ends[p]

RECURSIVE matchFrom(_, _, _, _)
\* the rest of the pattern matched after each offset of t, in order
matchRest(re, k, s, t) ==
    [i \in 1..Len(t) |-> matchFrom(re, k + 1, s, t[i])]

\* the first alternative whose rest matched
firstMatch(ends) == endAt(ends, leftmost(ends))

\* The end offset of the backtracking (greedy) match of the atoms k.. of re
\* at offset pos of s, or -1.
matchFrom(re, k, s, pos) ==
    IF k > Len(re.atoms) THEN pos
    ELSE firstMatch(matchRest(re, k, s, tries(re.atoms[k], s, pos, re)))

\* exec reads and writes lastIndex under the g or the y flag only
usesLastIndex(re) == re.global \/ re.sticky

\* exec's result for the match at offset p (-1: none) and the lastIndex it
\* leaves: under g or y the end of the match, or 0 after a failure
execAt(re, li, ends, p) ==
    IF p = -1
    THEN [index |-> -1, length |-> 0, lastIndex |-> IF usesLastIndex(re) THEN 0 ELSE li]
    ELSE [index |-> p, length |-> ends[p] - p,
          lastIndex |-> IF usesLastIndex(re) THEN ends[p] ELSE li]

execOn(re, li, ends) == execAt(re, li, ends, leftmost(ends))

\* exec searching from offset start: at start only under the y flag, else
\* at each offset from start on, which under the u or v flag are the
\* offsets where a character begins
execFrom(re, value, li, start) ==
    execOn(re, li, [p \in start..(IF re.sticky THEN start ELSE Len(value)) |->
                       IF re.unicode /\ p > start /\ isPair(value, p - 1) THEN -1
                       ELSE matchFrom(re, 1, value, p)])

\* A pattern that is one literal character beyond U+FFFF and nothing else,
\* without the i and the y flag: the engine compiles it to a search for the
\* string of its two code units, which starts at the offset it is given.
searchesString(re) ==
    /\ Len(re.atoms) = 1
    /\ re.atoms[1].lit
    /\ \A ch \in re.atoms[1].cls : Len(ch) = 2
    /\ ~re.ignoreCase
    /\ ~re.sticky

\* exec with the search starting at code unit offset start0: under the u or
\* v flag an offset inside a surrogate pair stands for the pair, and the
\* search starts where the pair begins, except in a search for a string
execStart(re, value, li, start0) ==
    IF start0 > Len(value)
    THEN execAt(re, li, <<>>, -1)
    ELSE execFrom(re, value, li,
                  IF re.unicode /\ ~searchesString(re) /\ isPair(value, start0 - 1)
                  THEN start0 - 1 ELSE start0)

\* regexp.exec(value) with the regexp's lastIndex li: the match's index (-1
\* for null), its length, and the lastIndex exec leaves behind.  The search
\* starts at lastIndex under the g or y flag and at 0 otherwise.
exec(re, value, li) == execStart(re, value, li, IF usesLastIndex(re) THEN li ELSE 0)

(***************************************************************************)
(* Helpers of create().                                                    *)
(***************************************************************************)
\* isUnderscored without its all-upper-case test
isUnderscoredNoUpper(name) == indexOf(name, "_") > -1

isUnderscored(name) ==
    indexOf(name, "_") > -1 /\ name # toUpperCase(name)

\* the flags new RegExp knows
RegExpFlags == {"d", "g", "i", "m", "s", "u", "v", "y"}

\* For each flag, the code units above U+00FF whose value has the low byte
\* of the flag's letter: U+0164, U+0264, ... U+FF64 for "d" (0x64).
SameLowByte ==
    [
      d |-> {
        "U+0164", "U+0264", "U+0364", "U+0464", "U+0564", "U+0664", "U+0764", "U+0864", "U+0964", "U+0A64",
        "U+0B64", "U+0C64", "U+0D64", "U+0E64", "U+0F64", "U+1064", "U+1164", "U+1264", "U+1364", "U+1464",
        "U+1564", "U+1664", "U+1764", "U+1864", "U+1964", "U+1A64", "U+1B64", "U+1C64", "U+1D64", "U+1E64",
        "U+1F64", "U+2064", "U+2164", "U+2264", "U+2364", "U+2464", "U+2564", "U+2664", "U+2764", "U+2864",
        "U+2964", "U+2A64", "U+2B64", "U+2C64", "U+2D64", "U+2E64", "U+2F64", "U+3064", "U+3164", "U+3264",
        "U+3364", "U+3464", "U+3564", "U+3664", "U+3764", "U+3864", "U+3964", "U+3A64", "U+3B64", "U+3C64",
        "U+3D64", "U+3E64", "U+3F64", "U+4064", "U+4164", "U+4264", "U+4364", "U+4464", "U+4564", "U+4664",
        "U+4764", "U+4864", "U+4964", "U+4A64", "U+4B64", "U+4C64", "U+4D64", "U+4E64", "U+4F64", "U+5064",
        "U+5164", "U+5264", "U+5364", "U+5464", "U+5564", "U+5664", "U+5764", "U+5864", "U+5964", "U+5A64",
        "U+5B64", "U+5C64", "U+5D64", "U+5E64", "U+5F64", "U+6064", "U+6164", "U+6264", "U+6364", "U+6464",
        "U+6564", "U+6664", "U+6764", "U+6864", "U+6964", "U+6A64", "U+6B64", "U+6C64", "U+6D64", "U+6E64",
        "U+6F64", "U+7064", "U+7164", "U+7264", "U+7364", "U+7464", "U+7564", "U+7664", "U+7764", "U+7864",
        "U+7964", "U+7A64", "U+7B64", "U+7C64", "U+7D64", "U+7E64", "U+7F64", "U+8064", "U+8164", "U+8264",
        "U+8364", "U+8464", "U+8564", "U+8664", "U+8764", "U+8864", "U+8964", "U+8A64", "U+8B64", "U+8C64",
        "U+8D64", "U+8E64", "U+8F64", "U+9064", "U+9164", "U+9264", "U+9364", "U+9464", "U+9564", "U+9664",
        "U+9764", "U+9864", "U+9964", "U+9A64", "U+9B64", "U+9C64", "U+9D64", "U+9E64", "U+9F64", "U+A064",
        "U+A164", "U+A264", "U+A364", "U+A464", "U+A564", "U+A664", "U+A764", "U+A864", "U+A964", "U+AA64",
        "U+AB64", "U+AC64", "U+AD64", "U+AE64", "U+AF64", "U+B064", "U+B164", "U+B264", "U+B364", "U+B464",
        "U+B564", "U+B664", "U+B764", "U+B864", "U+B964", "U+BA64", "U+BB64", "U+BC64", "U+BD64", "U+BE64",
        "U+BF64", "U+C064", "U+C164", "U+C264", "U+C364", "U+C464", "U+C564", "U+C664", "U+C764", "U+C864",
        "U+C964", "U+CA64", "U+CB64", "U+CC64", "U+CD64", "U+CE64", "U+CF64", "U+D064", "U+D164", "U+D264",
        "U+D364", "U+D464", "U+D564", "U+D664", "U+D764", "U+D864", "U+D964", "U+DA64", "U+DB64", "U+DC64",
        "U+DD64", "U+DE64", "U+DF64", "U+E064", "U+E164", "U+E264", "U+E364", "U+E464", "U+E564", "U+E664",
        "U+E764", "U+E864", "U+E964", "U+EA64", "U+EB64", "U+EC64", "U+ED64", "U+EE64", "U+EF64", "U+F064",
        "U+F164", "U+F264", "U+F364", "U+F464", "U+F564", "U+F664", "U+F764", "U+F864", "U+F964", "U+FA64",
        "U+FB64", "U+FC64", "U+FD64", "U+FE64", "U+FF64" },
      g |-> {
        "U+0167", "U+0267", "U+0367", "U+0467", "U+0567", "U+0667", "U+0767", "U+0867", "U+0967", "U+0A67",
        "U+0B67", "U+0C67", "U+0D67", "U+0E67", "U+0F67", "U+1067", "U+1167", "U+1267", "U+1367", "U+1467",
        "U+1567", "U+1667", "U+1767", "U+1867", "U+1967", "U+1A67", "U+1B67", "U+1C67", "U+1D67", "U+1E67",
        "U+1F67", "U+2067", "U+2167", "U+2267", "U+2367", "U+2467", "U+2567", "U+2667", "U+2767", "U+2867",
        "U+2967", "U+2A67", "U+2B67", "U+2C67", "U+2D67", "U+2E67", "U+2F67", "U+3067", "U+3167", "U+3267",
        "U+3367", "U+3467", "U+3567", "U+3667", "U+3767", "U+3867", "U+3967", "U+3A67", "U+3B67", "U+3C67",
        "U+3D67", "U+3E67", "U+3F67", "U+4067", "U+4167", "U+4267", "U+4367", "U+4467", "U+4567", "U+4667",
        "U+4767", "U+4867", "U+4967", "U+4A67", "U+4B67", "U+4C67", "U+4D67", "U+4E67", "U+4F67", "U+5067",
        "U+5167", "U+5267", "U+5367", "U+5467", "U+5567", "U+5667", "U+5767", "U+5867", "U+5967", "U+5A67",
        "U+5B67", "U+5C67", "U+5D67", "U+5E67", "U+5F67", "U+6067", "U+6167", "U+6267", "U+6367", "U+6467",
        "U+6567", "U+6667", "U+6767", "U+6867", "U+6967", "U+6A67", "U+6B67", "U+6C67", "U+6D67", "U+6E67",
        "U+6F67", "U+7067", "U+7167", "U+7267", "U+7367", "U+7467", "U+7567", "U+7667", "U+7767", "U+7867",
        "U+7967", "U+7A67", "U+7B67", "U+7C67", "U+7D67", "U+7E67", "U+7F67", "U+8067", "U+8167", "U+8267",
        "U+8367", "U+8467", "U+8567", "U+8667", "U+8767", "U+8867", "U+8967", "U+8A67", "U+8B67", "U+8C67",
        "U+8D67", "U+8E67", "U+8F67", "U+9067", "U+9167", "U+9267", "U+9367", "U+9467", "U+9567", "U+9667",
        "U+9767", "U+9867", "U+9967", "U+9A67", "U+9B67", "U+9C67", "U+9D67", "U+9E67", "U+9F67", "U+A067",
        "U+A167", "U+A267", "U+A367", "U+A467", "U+A567", "U+A667", "U+A767", "U+A867", "U+A967", "U+AA67",
        "U+AB67", "U+AC67", "U+AD67", "U+AE67", "U+AF67", "U+B067", "U+B167", "U+B267", "U+B367", "U+B467",
        "U+B567", "U+B667", "U+B767", "U+B867", "U+B967", "U+BA67", "U+BB67", "U+BC67", "U+BD67", "U+BE67",
        "U+BF67", "U+C067", "U+C167", "U+C267", "U+C367", "U+C467", "U+C567", "U+C667", "U+C767", "U+C867",
        "U+C967", "U+CA67", "U+CB67", "U+CC67", "U+CD67", "U+CE67", "U+CF67", "U+D067", "U+D167", "U+D267",
        "U+D367", "U+D467", "U+D567", "U+D667", "U+D767", "U+D867", "U+D967", "U+DA67", "U+DB67", "U+DC67",
        "U+DD67", "U+DE67", "U+DF67", "U+E067", "U+E167", "U+E267", "U+E367", "U+E467", "U+E567", "U+E667",
        "U+E767", "U+E867", "U+E967", "U+EA67", "U+EB67", "U+EC67", "U+ED67", "U+EE67", "U+EF67", "U+F067",
        "U+F167", "U+F267", "U+F367", "U+F467", "U+F567", "U+F667", "U+F767", "U+F867", "U+F967", "U+FA67",
        "U+FB67", "U+FC67", "U+FD67", "U+FE67", "U+FF67" },
      i |-> {
        "U+0169", "U+0269", "U+0369", "U+0469", "U+0569", "U+0669", "U+0769", "U+0869", "U+0969", "U+0A69",
        "U+0B69", "U+0C69", "U+0D69", "U+0E69", "U+0F69", "U+1069", "U+1169", "U+1269", "U+1369", "U+1469",
        "U+1569", "U+1669", "U+1769", "U+1869", "U+1969", "U+1A69", "U+1B69", "U+1C69", "U+1D69", "U+1E69",
        "U+1F69", "U+2069", "U+2169", "U+2269", "U+2369", "U+2469", "U+2569", "U+2669", "U+2769", "U+2869",
        "U+2969", "U+2A69", "U+2B69", "U+2C69", "U+2D69", "U+2E69", "U+2F69", "U+3069", "U+3169", "U+3269",
        "U+3369", "U+3469", "U+3569", "U+3669", "U+3769", "U+3869", "U+3969", "U+3A69", "U+3B69", "U+3C69",
        "U+3D69", "U+3E69", "U+3F69", "U+4069", "U+4169", "U+4269", "U+4369", "U+4469", "U+4569", "U+4669",
        "U+4769", "U+4869", "U+4969", "U+4A69", "U+4B69", "U+4C69", "U+4D69", "U+4E69", "U+4F69", "U+5069",
        "U+5169", "U+5269", "U+5369", "U+5469", "U+5569", "U+5669", "U+5769", "U+5869", "U+5969", "U+5A69",
        "U+5B69", "U+5C69", "U+5D69", "U+5E69", "U+5F69", "U+6069", "U+6169", "U+6269", "U+6369", "U+6469",
        "U+6569", "U+6669", "U+6769", "U+6869", "U+6969", "U+6A69", "U+6B69", "U+6C69", "U+6D69", "U+6E69",
        "U+6F69", "U+7069", "U+7169", "U+7269", "U+7369", "U+7469", "U+7569", "U+7669", "U+7769", "U+7869",
        "U+7969", "U+7A69", "U+7B69", "U+7C69", "U+7D69", "U+7E69", "U+7F69", "U+8069", "U+8169", "U+8269",
        "U+8369", "U+8469", "U+8569", "U+8669", "U+8769", "U+8869", "U+8969", "U+8A69", "U+8B69", "U+8C69",
        "U+8D69", "U+8E69", "U+8F69", "U+9069", "U+9169", "U+9269", "U+9369", "U+9469", "U+9569", "U+9669",
        "U+9769", "U+9869", "U+9969", "U+9A69", "U+9B69", "U+9C69", "U+9D69", "U+9E69", "U+9F69", "U+A069",
        "U+A169", "U+A269", "U+A369", "U+A469", "U+A569", "U+A669", "U+A769", "U+A869", "U+A969", "U+AA69",
        "U+AB69", "U+AC69", "U+AD69", "U+AE69", "U+AF69", "U+B069", "U+B169", "U+B269", "U+B369", "U+B469",
        "U+B569", "U+B669", "U+B769", "U+B869", "U+B969", "U+BA69", "U+BB69", "U+BC69", "U+BD69", "U+BE69",
        "U+BF69", "U+C069", "U+C169", "U+C269", "U+C369", "U+C469", "U+C569", "U+C669", "U+C769", "U+C869",
        "U+C969", "U+CA69", "U+CB69", "U+CC69", "U+CD69", "U+CE69", "U+CF69", "U+D069", "U+D169", "U+D269",
        "U+D369", "U+D469", "U+D569", "U+D669", "U+D769", "U+D869", "U+D969", "U+DA69", "U+DB69", "U+DC69",
        "U+DD69", "U+DE69", "U+DF69", "U+E069", "U+E169", "U+E269", "U+E369", "U+E469", "U+E569", "U+E669",
        "U+E769", "U+E869", "U+E969", "U+EA69", "U+EB69", "U+EC69", "U+ED69", "U+EE69", "U+EF69", "U+F069",
        "U+F169", "U+F269", "U+F369", "U+F469", "U+F569", "U+F669", "U+F769", "U+F869", "U+F969", "U+FA69",
        "U+FB69", "U+FC69", "U+FD69", "U+FE69", "U+FF69" },
      m |-> {
        "U+016D", "U+026D", "U+036D", "U+046D", "U+056D", "U+066D", "U+076D", "U+086D", "U+096D", "U+0A6D",
        "U+0B6D", "U+0C6D", "U+0D6D", "U+0E6D", "U+0F6D", "U+106D", "U+116D", "U+126D", "U+136D", "U+146D",
        "U+156D", "U+166D", "U+176D", "U+186D", "U+196D", "U+1A6D", "U+1B6D", "U+1C6D", "U+1D6D", "U+1E6D",
        "U+1F6D", "U+206D", "U+216D", "U+226D", "U+236D", "U+246D", "U+256D", "U+266D", "U+276D", "U+286D",
        "U+296D", "U+2A6D", "U+2B6D", "U+2C6D", "U+2D6D", "U+2E6D", "U+2F6D", "U+306D", "U+316D", "U+326D",
        "U+336D", "U+346D", "U+356D", "U+366D", "U+376D", "U+386D", "U+396D", "U+3A6D", "U+3B6D", "U+3C6D",
        "U+3D6D", "U+3E6D", "U+3F6D", "U+406D", "U+416D", "U+426D", "U+436D", "U+446D", "U+456D", "U+466D",
        "U+476D", "U+486D", "U+496D", "U+4A6D", "U+4B6D", "U+4C6D", "U+4D6D", "U+4E6D", "U+4F6D", "U+506D",
        "U+516D", "U+526D", "U+536D", "U+546D", "U+556D", "U+566D", "U+576D", "U+586D", "U+596D", "U+5A6D",
        "U+5B6D", "U+5C6D", "U+5D6D", "U+5E6D", "U+5F6D", "U+606D", "U+616D", "U+626D", "U+636D", "U+646D",
        "U+656D", "U+666D", "U+676D", "U+686D", "U+696D", "U+6A6D", "U+6B6D", "U+6C6D", "U+6D6D", "U+6E6D",
        "U+6F6D", "U+706D", "U+716D", "U+726D", "U+736D", "U+746D", "U+756D", "U+766D", "U+776D", "U+786D",
        "U+796D", "U+7A6D", "U+7B6D", "U+7C6D", "U+7D6D", "U+7E6D", "U+7F6D", "U+806D", "U+816D", "U+826D",
        "U+836D", "U+846D", "U+856D", "U+866D", "U+876D", "U+886D", "U+896D", "U+8A6D", "U+8B6D", "U+8C6D",
        "U+8D6D", "U+8E6D", "U+8F6D", "U+906D", "U+916D", "U+926D", "U+936D", "U+946D", "U+956D", "U+966D",
        "U+976D", "U+986D", "U+996D", "U+9A6D", "U+9B6D", "U+9C6D", "U+9D6D", "U+9E6D", "U+9F6D", "U+A06D",
        "U+A16D", "U+A26D", "U+A36D", "U+A46D", "U+A56D", "U+A66D", "U+A76D", "U+A86D", "U+A96D", "U+AA6D",
        "U+AB6D", "U+AC6D", "U+AD6D", "U+AE6D", "U+AF6D", "U+B06D", "U+B16D", "U+B26D", "U+B36D", "U+B46D",
        "U+B56D", "U+B66D", "U+B76D", "U+B86D", "U+B96D", "U+BA6D", "U+BB6D", "U+BC6D", "U+BD6D", "U+BE6D",
        "U+BF6D", "U+C06D", "U+C16D", "U+C26D", "U+C36D", "U+C46D", "U+C56D", "U+C66D", "U+C76D", "U+C86D",
        "U+C96D", "U+CA6D", "U+CB6D", "U+CC6D", "U+CD6D", "U+CE6D", "U+CF6D", "U+D06D", "U+D16D", "U+D26D",
        "U+D36D", "U+D46D", "U+D56D", "U+D66D", "U+D76D", "U+D86D", "U+D96D", "U+DA6D", "U+DB6D", "U+DC6D",
        "U+DD6D", "U+DE6D", "U+DF6D", "U+E06D", "U+E16D", "U+E26D", "U+E36D", "U+E46D", "U+E56D", "U+E66D",
        "U+E76D", "U+E86D", "U+E96D", "U+EA6D", "U+EB6D", "U+EC6D", "U+ED6D", "U+EE6D", "U+EF6D", "U+F06D",
        "U+F16D", "U+F26D", "U+F36D", "U+F46D", "U+F56D", "U+F66D", "U+F76D", "U+F86D", "U+F96D", "U+FA6D",
        "U+FB6D", "U+FC6D", "U+FD6D", "U+FE6D", "U+FF6D" },
      s |-> {
        "U+0173", "U+0273", "U+0373", "U+0473", "U+0573", "U+0673", "U+0773", "U+0873", "U+0973", "U+0A73",
        "U+0B73", "U+0C73", "U+0D73", "U+0E73", "U+0F73", "U+1073", "U+1173", "U+1273", "U+1373", "U+1473",
        "U+1573", "U+1673", "U+1773", "U+1873", "U+1973", "U+1A73", "U+1B73", "U+1C73", "U+1D73", "U+1E73",
        "U+1F73", "U+2073", "U+2173", "U+2273", "U+2373", "U+2473", "U+2573", "U+2673", "U+2773", "U+2873",
        "U+2973", "U+2A73", "U+2B73", "U+2C73", "U+2D73", "U+2E73", "U+2F73", "U+3073", "U+3173", "U+3273",
        "U+3373", "U+3473", "U+3573", "U+3673", "U+3773", "U+3873", "U+3973", "U+3A73", "U+3B73", "U+3C73",
        "U+3D73", "U+3E73", "U+3F73", "U+4073", "U+4173", "U+4273", "U+4373", "U+4473", "U+4573", "U+4673",
        "U+4773", "U+4873", "U+4973", "U+4A73", "U+4B73", "U+4C73", "U+4D73", "U+4E73", "U+4F73", "U+5073",
        "U+5173", "U+5273", "U+5373", "U+5473", "U+5573", "U+5673", "U+5773", "U+5873", "U+5973", "U+5A73",
        "U+5B73", "U+5C73", "U+5D73", "U+5E73", "U+5F73", "U+6073", "U+6173", "U+6273", "U+6373", "U+6473",
        "U+6573", "U+6673", "U+6773", "U+6873", "U+6973", "U+6A73", "U+6B73", "U+6C73", "U+6D73", "U+6E73",
        "U+6F73", "U+7073", "U+7173", "U+7273", "U+7373", "U+7473", "U+7573", "U+7673", "U+7773", "U+7873",
        "U+7973", "U+7A73", "U+7B73", "U+7C73", "U+7D73", "U+7E73", "U+7F73", "U+8073", "U+8173", "U+8273",
        "U+8373", "U+8473", "U+8573", "U+8673", "U+8773", "U+8873", "U+8973", "U+8A73", "U+8B73", "U+8C73",
        "U+8D73", "U+8E73", "U+8F73", "U+9073", "U+9173", "U+9273", "U+9373", "U+9473", "U+9573", "U+9673",
        "U+9773", "U+9873", "U+9973", "U+9A73", "U+9B73", "U+9C73", "U+9D73", "U+9E73", "U+9F73", "U+A073",
        "U+A173", "U+A273", "U+A373", "U+A473", "U+A573", "U+A673", "U+A773", "U+A873", "U+A973", "U+AA73",
        "U+AB73", "U+AC73", "U+AD73", "U+AE73", "U+AF73", "U+B073", "U+B173", "U+B273", "U+B373", "U+B473",
        "U+B573", "U+B673", "U+B773", "U+B873", "U+B973", "U+BA73", "U+BB73", "U+BC73", "U+BD73", "U+BE73",
        "U+BF73", "U+C073", "U+C173", "U+C273", "U+C373", "U+C473", "U+C573", "U+C673", "U+C773", "U+C873",
        "U+C973", "U+CA73", "U+CB73", "U+CC73", "U+CD73", "U+CE73", "U+CF73", "U+D073", "U+D173", "U+D273",
        "U+D373", "U+D473", "U+D573", "U+D673", "U+D773", "U+D873", "U+D973", "U+DA73", "U+DB73", "U+DC73",
        "U+DD73", "U+DE73", "U+DF73", "U+E073", "U+E173", "U+E273", "U+E373", "U+E473", "U+E573", "U+E673",
        "U+E773", "U+E873", "U+E973", "U+EA73", "U+EB73", "U+EC73", "U+ED73", "U+EE73", "U+EF73", "U+F073",
        "U+F173", "U+F273", "U+F373", "U+F473", "U+F573", "U+F673", "U+F773", "U+F873", "U+F973", "U+FA73",
        "U+FB73", "U+FC73", "U+FD73", "U+FE73", "U+FF73" },
      u |-> {
        "U+0175", "U+0275", "U+0375", "U+0475", "U+0575", "U+0675", "U+0775", "U+0875", "U+0975", "U+0A75",
        "U+0B75", "U+0C75", "U+0D75", "U+0E75", "U+0F75", "U+1075", "U+1175", "U+1275", "U+1375", "U+1475",
        "U+1575", "U+1675", "U+1775", "U+1875", "U+1975", "U+1A75", "U+1B75", "U+1C75", "U+1D75", "U+1E75",
        "U+1F75", "U+2075", "U+2175", "U+2275", "U+2375", "U+2475", "U+2575", "U+2675", "U+2775", "U+2875",
        "U+2975", "U+2A75", "U+2B75", "U+2C75", "U+2D75", "U+2E75", "U+2F75", "U+3075", "U+3175", "U+3275",
        "U+3375", "U+3475", "U+3575", "U+3675", "U+3775", "U+3875", "U+3975", "U+3A75", "U+3B75", "U+3C75",
        "U+3D75", "U+3E75", "U+3F75", "U+4075", "U+4175", "U+4275", "U+4375", "U+4475", "U+4575", "U+4675",
        "U+4775", "U+4875", "U+4975", "U+4A75", "U+4B75", "U+4C75", "U+4D75", "U+4E75", "U+4F75", "U+5075",
        "U+5175", "U+5275", "U+5375", "U+5475", "U+5575", "U+5675", "U+5775", "U+5875", "U+5975", "U+5A75",
        "U+5B75", "U+5C75", "U+5D75", "U+5E75", "U+5F75", "U+6075", "U+6175", "U+6275", "U+6375", "U+6475",
        "U+6575", "U+6675", "U+6775", "U+6875", "U+6975", "U+6A75", "U+6B75", "U+6C75", "U+6D75", "U+6E75",
        "U+6F75", "U+7075", "U+7175", "U+7275", "U+7375", "U+7475", "U+7575", "U+7675", "U+7775", "U+7875",
        "U+7975", "U+7A75", "U+7B75", "U+7C75", "U+7D75", "U+7E75", "U+7F75", "U+8075", "U+8175", "U+8275",
        "U+8375", "U+8475", "U+8575", "U+8675", "U+8775", "U+8875", "U+8975", "U+8A75", "U+8B75", "U+8C75",
        "U+8D75", "U+8E75", "U+8F75", "U+9075", "U+9175", "U+9275", "U+9375", "U+9475", "U+9575", "U+9675",
        "U+9775", "U+9875", "U+9975", "U+9A75", "U+9B75", "U+9C75", "U+9D75", "U+9E75", "U+9F75", "U+A075",
        "U+A175", "U+A275", "U+A375", "U+A475", "U+A575", "U+A675", "U+A775", "U+A875", "U+A975", "U+AA75",
        "U+AB75", "U+AC75", "U+AD75", "U+AE75", "U+AF75", "U+B075", "U+B175", "U+B275", "U+B375", "U+B475",
        "U+B575", "U+B675", "U+B775", "U+B875", "U+B975", "U+BA75", "U+BB75", "U+BC75", "U+BD75", "U+BE75",
        "U+BF75", "U+C075", "U+C175", "U+C275", "U+C375", "U+C475", "U+C575", "U+C675", "U+C775", "U+C875",
        "U+C975", "U+CA75", "U+CB75", "U+CC75", "U+CD75", "U+CE75", "U+CF75", "U+D075", "U+D175", "U+D275",
        "U+D375", "U+D475", "U+D575", "U+D675", "U+D775", "U+D875", "U+D975", "U+DA75", "U+DB75", "U+DC75",
        "U+DD75", "U+DE75", "U+DF75", "U+E075", "U+E175", "U+E275", "U+E375", "U+E475", "U+E575", "U+E675",
        "U+E775", "U+E875", "U+E975", "U+EA75", "U+EB75", "U+EC75", "U+ED75", "U+EE75", "U+EF75", "U+F075",
        "U+F175", "U+F275", "U+F375", "U+F475", "U+F575", "U+F675", "U+F775", "U+F875", "U+F975", "U+FA75",
        "U+FB75", "U+FC75", "U+FD75", "U+FE75", "U+FF75" },
      v |-> {
        "U+0176", "U+0276", "U+0376", "U+0476", "U+0576", "U+0676", "U+0776", "U+0876", "U+0976", "U+0A76",
        "U+0B76", "U+0C76", "U+0D76", "U+0E76", "U+0F76", "U+1076", "U+1176", "U+1276", "U+1376", "U+1476",
        "U+1576", "U+1676", "U+1776", "U+1876", "U+1976", "U+1A76", "U+1B76", "U+1C76", "U+1D76", "U+1E76",
        "U+1F76", "U+2076", "U+2176", "U+2276", "U+2376", "U+2476", "U+2576", "U+2676", "U+2776", "U+2876",
        "U+2976", "U+2A76", "U+2B76", "U+2C76", "U+2D76", "U+2E76", "U+2F76", "U+3076", "U+3176", "U+3276",
        "U+3376", "U+3476", "U+3576", "U+3676", "U+3776", "U+3876", "U+3976", "U+3A76", "U+3B76", "U+3C76",
        "U+3D76", "U+3E76", "U+3F76", "U+4076", "U+4176", "U+4276", "U+4376", "U+4476", "U+4576", "U+4676",
        "U+4776", "U+4876", "U+4976", "U+4A76", "U+4B76", "U+4C76", "U+4D76", "U+4E76", "U+4F76", "U+5076",
        "U+5176", "U+5276", "U+5376", "U+5476", "U+5576", "U+5676", "U+5776", "U+5876", "U+5976", "U+5A76",
        "U+5B76", "U+5C76", "U+5D76", "U+5E76", "U+5F76", "U+6076", "U+6176", "U+6276", "U+6376", "U+6476",
        "U+6576", "U+6676", "U+6776", "U+6876", "U+6976", "U+6A76", "U+6B76", "U+6C76", "U+6D76", "U+6E76",
        "U+6F76", "U+7076", "U+7176", "U+7276", "U+7376", "U+7476", "U+7576", "U+7676", "U+7776", "U+7876",
        "U+7976", "U+7A76", "U+7B76", "U+7C76", "U+7D76", "U+7E76", "U+7F76", "U+8076", "U+8176", "U+8276",
        "U+8376", "U+8476", "U+8576", "U+8676", "U+8776", "U+8876", "U+8976", "U+8A76", "U+8B76", "U+8C76",
        "U+8D76", "U+8E76", "U+8F76", "U+9076", "U+9176", "U+9276", "U+9376", "U+9476", "U+9576", "U+9676",
        "U+9776", "U+9876", "U+9976", "U+9A76", "U+9B76", "U+9C76", "U+9D76", "U+9E76", "U+9F76", "U+A076",
        "U+A176", "U+A276", "U+A376", "U+A476", "U+A576", "U+A676", "U+A776", "U+A876", "U+A976", "U+AA76",
        "U+AB76", "U+AC76", "U+AD76", "U+AE76", "U+AF76", "U+B076", "U+B176", "U+B276", "U+B376", "U+B476",
        "U+B576", "U+B676", "U+B776", "U+B876", "U+B976", "U+BA76", "U+BB76", "U+BC76", "U+BD76", "U+BE76",
        "U+BF76", "U+C076", "U+C176", "U+C276", "U+C376", "U+C476", "U+C576", "U+C676", "U+C776", "U+C876",
        "U+C976", "U+CA76", "U+CB76", "U+CC76", "U+CD76", "U+CE76", "U+CF76", "U+D076", "U+D176", "U+D276",
        "U+D376", "U+D476", "U+D576", "U+D676", "U+D776", "U+D876", "U+D976", "U+DA76", "U+DB76", "U+DC76",
        "U+DD76", "U+DE76", "U+DF76", "U+E076", "U+E176", "U+E276", "U+E376", "U+E476", "U+E576", "U+E676",
        "U+E776", "U+E876", "U+E976", "U+EA76", "U+EB76", "U+EC76", "U+ED76", "U+EE76", "U+EF76", "U+F076",
        "U+F176", "U+F276", "U+F376", "U+F476", "U+F576", "U+F676", "U+F776", "U+F876", "U+F976", "U+FA76",
        "U+FB76", "U+FC76", "U+FD76", "U+FE76", "U+FF76" },
      y |-> {
        "U+0179", "U+0279", "U+0379", "U+0479", "U+0579", "U+0679", "U+0779", "U+0879", "U+0979", "U+0A79",
        "U+0B79", "U+0C79", "U+0D79", "U+0E79", "U+0F79", "U+1079", "U+1179", "U+1279", "U+1379", "U+1479",
        "U+1579", "U+1679", "U+1779", "U+1879", "U+1979", "U+1A79", "U+1B79", "U+1C79", "U+1D79", "U+1E79",
        "U+1F79", "U+2079", "U+2179", "U+2279", "U+2379", "U+2479", "U+2579", "U+2679", "U+2779", "U+2879",
        "U+2979", "U+2A79", "U+2B79", "U+2C79", "U+2D79", "U+2E79", "U+2F79", "U+3079", "U+3179", "U+3279",
        "U+3379", "U+3479", "U+3579", "U+3679", "U+3779", "U+3879", "U+3979", "U+3A79", "U+3B79", "U+3C79",
        "U+3D79", "U+3E79", "U+3F79", "U+4079", "U+4179", "U+4279", "U+4379", "U+4479", "U+4579", "U+4679",
        "U+4779", "U+4879", "U+4979", "U+4A79", "U+4B79", "U+4C79", "U+4D79", "U+4E79", "U+4F79", "U+5079",
        "U+5179", "U+5279", "U+5379", "U+5479", "U+5579", "U+5679", "U+5779", "U+5879", "U+5979", "U+5A79",
        "U+5B79", "U+5C79", "U+5D79", "U+5E79", "U+5F79", "U+6079", "U+6179", "U+6279", "U+6379", "U+6479",
        "U+6579", "U+6679", "U+6779", "U+6879", "U+6979", "U+6A79", "U+6B79", "U+6C79", "U+6D79", "U+6E79",
        "U+6F79", "U+7079", "U+7179", "U+7279", "U+7379", "U+7479", "U+7579", "U+7679", "U+7779", "U+7879",
        "U+7979", "U+7A79", "U+7B79", "U+7C79", "U+7D79", "U+7E79", "U+7F79", "U+8079", "U+8179", "U+8279",
        "U+8379", "U+8479", "U+8579", "U+8679", "U+8779", "U+8879", "U+8979", "U+8A79", "U+8B79", "U+8C79",
        "U+8D79", "U+8E79", "U+8F79", "U+9079", "U+9179", "U+9279", "U+9379", "U+9479", "U+9579", "U+9679",
        "U+9779", "U+9879", "U+9979", "U+9A79", "U+9B79", "U+9C79", "U+9D79", "U+9E79", "U+9F79", "U+A079",
        "U+A179", "U+A279", "U+A379", "U+A479", "U+A579", "U+A679", "U+A779", "U+A879", "U+A979", "U+AA79",
        "U+AB79", "U+AC79", "U+AD79", "U+AE79", "U+AF79", "U+B079", "U+B179", "U+B279", "U+B379", "U+B479",
        "U+B579", "U+B679", "U+B779", "U+B879", "U+B979", "U+BA79", "U+BB79", "U+BC79", "U+BD79", "U+BE79",
        "U+BF79", "U+C079", "U+C179", "U+C279", "U+C379", "U+C479", "U+C579", "U+C679", "U+C779", "U+C879",
        "U+C979", "U+CA79", "U+CB79", "U+CC79", "U+CD79", "U+CE79", "U+CF79", "U+D079", "U+D179", "U+D279",
        "U+D379", "U+D479", "U+D579", "U+D679", "U+D779", "U+D879", "U+D979", "U+DA79", "U+DB79", "U+DC79",
        "U+DD79", "U+DE79", "U+DF79", "U+E079", "U+E179", "U+E279", "U+E379", "U+E479", "U+E579", "U+E679",
        "U+E779", "U+E879", "U+E979", "U+EA79", "U+EB79", "U+EC79", "U+ED79", "U+EE79", "U+EF79", "U+F079",
        "U+F179", "U+F279", "U+F379", "U+F479", "U+F579", "U+F679", "U+F779", "U+F879", "U+F979", "U+FA79",
        "U+FB79", "U+FC79", "U+FD79", "U+FE79", "U+FF79" } ]

\* The flag that new RegExp reads a code unit of the flags string as.  The
\* engine reads each code unit by its low byte alone, so that U+0167 is
\* read as "g" (0x67); any other code unit is read as itself.
flagOf(c) ==
    IF \E f \in RegExpFlags : c \in SameLowByte[f]
    THEN CHOOSE f \in RegExpFlags : c \in SameLowByte[f]
    ELSE c

hasFlag(flags, f) == \E k \in DOMAIN flags : flagOf(flags[k]) = f

\* a flags string new RegExp accepts: every code unit is read as a known
\* flag, no flag twice, and not both u and v
validFlags(flags) ==
    /\ \A k \in DOMAIN flags : flagOf(flags[k]) \in RegExpFlags
    /\ \A j, k \in DOMAIN flags : flagOf(flags[j]) = flagOf(flags[k]) => j = k
    /\ ~(hasFlag(flags, "u") /\ hasFlag(flags, "v"))

\* A string or RegExp element of a processed option.  A pattern is the
\* sequence of its atoms as the flags make the parser read it: the
\* characters of a class are code units, and whole characters under the u
\* or v flag.  The atoms have no ^, $ or dot, which is all that the m and s
\* flags bear on; the d flag adds to the match result only.
element(type, s, atoms, flags) ==
    [type |-> type, s |-> s, atoms |-> atoms,
     ignoreCase |-> hasFlag(flags, "i"),
     global |-> hasFlag(flags, "g"),
     sticky |-> hasFlag(flags, "y"),
     unicode |-> hasFlag(flags, "u") \/ hasFlag(flags, "v"),
     multiline |-> hasFlag(flags, "m"),
     dotAll |-> hasFlag(flags, "s"),
     hasIndices |-> hasFlag(flags, "d")]

\* new RegExp(pattern, flags || ""): the RegExp, or of type "SyntaxError"
\* what is thrown for a flags string that is not valid
newRegExp(pattern, flags) ==
    element(IF validFlags(flags) THEN "regexp" ELSE "SyntaxError", <<>>, pattern, flags)

\* One element of an ArrayOfStringOrRegExp option: a string, or an ESTree
\* RegExpLiteral {regex: {pattern, flags}}, flags <<>> when absent.
Str(s) == [type |-> "string", s |-> s, pattern |-> <<>>, flags |-> <<>>]

Re(pattern, flags) == [type |-> "object", s |-> <<>>, pattern |-> pattern, flags |-> flags]

processElement(elt) ==
    IF elt.type = "object"
    THEN newRegExp(elt.pattern, elt.flags)
    ELSE element("string", elt.s, <<>>, <<>>)

\* iv is [defined, arr]: an absent option stays undefined.  An element of
\* type "SyntaxError" in the result says that the call threw there.
processArrayOfStringOrRegExp(iv) ==
    IF iv.defined
    THEN [defined |-> TRUE, arr |-> [k \in 1..Len(iv.arr) |-> processElement(iv.arr[k])]]
    ELSE [defined |-> FALSE, arr |-> <<>>]

\* [r: the offset or -1, lastIndex: the prefix's lastIndex, untouched]
startAfterStringPrefix(value, prefix, li) ==
    [r |-> IF Len(prefix) >= Len(value) THEN -1
           ELSE IF substr2(value, 0, Len(prefix)) # prefix THEN -1
           ELSE Len(prefix),
     lastIndex |-> li]

\* the rest of startAfterRegExpPrefix, given its match
startOfMatch(match) ==
    [r |-> IF match.index = -1 THEN -1
           ELSE IF match.index # 0 THEN -1
           ELSE match.length,
     lastIndex |-> match.lastIndex]

\* [r: the offset or -1, lastIndex: what exec left in the prefix]
startAfterRegExpPrefix(value, prefix, li) == startOfMatch(exec(prefix, value, li))

endBeforeStringSuffix(value, suffix, li) ==
    [r |-> IF Len(value) - Len(suffix) <= 0 THEN -1
           ELSE IF substr(value, Len(value) - Len(suffix)) # suffix THEN -1
           ELSE Len(value) - Len(suffix),
     lastIndex |-> li]

\* the rest of endBeforeRegExpSuffix, given its match
endsOfMatch(value, match) ==
    [r |-> IF match.index = -1 THEN -1
           ELSE IF match.index + match.length # Len(value) THEN -1
           ELSE match.index,
     lastIndex |-> match.lastIndex]

endBeforeRegExpSuffix(value, suffix, li) == endsOfMatch(value, exec(suffix, value, li))

\* the typeof test of removePrefix's loop body
startAfter(value, prefix, li) ==
    IF prefix.type = "string"
    THEN startAfterStringPrefix(value, prefix.s, li)
    ELSE startAfterRegExpPrefix(value, prefix, li)

\* the typeof test of removeSuffix's loop body
endBefore(value, suffix, li) ==
    IF suffix.type = "string"
    THEN endBeforeStringSuffix(value, suffix.s, li)
    ELSE endBeforeRegExpSuffix(value, suffix, li)

RECURSIVE removePrefixLoop(_, _, _, _)
\* one pass of removePrefix's loop body, start being its [r, lastIndex]
removePrefixStep(i, value, allowed, li, start) ==
    IF start.r >= 0
    THEN [value |-> substr(value, start.r), li |-> [li EXCEPT ![i] = start.lastIndex]]
    ELSE removePrefixLoop(i + 1, value, allowed, [li EXCEPT ![i] = start.lastIndex])

\* The for loop of removePrefix from index i (1-based); li is the lastIndex
\* of each element of allowed.  Gives the value and the lastIndex values left.
removePrefixLoop(i, value, allowed, li) ==
    IF i > Len(allowed) THEN [value |-> value, li |-> li]
    ELSE removePrefixStep(i, value, allowed, li, startAfter(value, allowed[i], li[i]))

RECURSIVE removePrefixNoBreakLoop(_, _, _, _)
removePrefixNoBreakStep(i, value, allowed, li, start) ==
    removePrefixNoBreakLoop(i + 1,
        IF start.r >= 0 THEN substr(value, start.r) ELSE value,
        allowed, [li EXCEPT ![i] = start.lastIndex])

removePrefixNoBreakLoop(i, value, allowed, li) ==
    IF i > Len(allowed) THEN [value |-> value, li |-> li]
    ELSE removePrefixNoBreakStep(i, value, allowed, li,
                                 startAfter(value, allowed[i], li[i]))

\* removePrefix without the break: every allowed prefix is stripped in turn
removePrefixNoBreak(value, allowed, li) == removePrefixNoBreakLoop(1, value, allowed, li)

removePrefix(value, allowed, li) == removePrefixLoop(1, value, allowed, li)

RECURSIVE removeSuffixLoop(_, _, _, _)
removeSuffixStep(i, value, allowed, li, ends) ==
    IF ends.r >= 0
    THEN [value |-> substr2(value, 0, ends.r), li |-> [li EXCEPT ![i] = ends.lastIndex]]
    ELSE removeSuffixLoop(i + 1, value, allowed, [li EXCEPT ![i] = ends.lastIndex])

removeSuffixLoop(i, value, allowed, li) ==
    IF i > Len(allowed) THEN [value |-> value, li |-> li]
    ELSE removeSuffixStep(i, value, allowed, li, endBefore(value, allowed[i], li[i]))

removeSuffix(value, allowed, li) == removeSuffixLoop(1, value, allowed, li)

\* exception === value, or exception.test(value): [index: -1 when false,
\* lastIndex: the exception's lastIndex afterwards]
exceptionTest(value, exception, li) ==
    IF exception.type = "string"
    THEN [index |-> IF exception.s = value THEN 0 ELSE -1, length |-> 0, lastIndex |-> li]
    ELSE exec(exception, value, li)

RECURSIVE matchExceptionsLoop(_, _, _, _)
matchExceptionsStep(i, value, allowed, li, m) ==
    IF m.index # -1
    THEN [isException |-> TRUE, li |-> [li EXCEPT ![i] = m.lastIndex]]
    ELSE matchExceptionsLoop(i + 1, value, allowed, [li EXCEPT ![i] = m.lastIndex])

\* The for loop of matchExceptions, entered with isException false.
matchExceptionsLoop(i, value, allowed, li) ==
    IF i > Len(allowed) THEN [isException |-> FALSE, li |-> li]
    ELSE matchExceptionsStep(i, value, allowed, li, exceptionTest(value, allowed[i], li[i]))

matchExceptions(value, allowed, li) == matchExceptionsLoop(1, value, allowed, li)

(***************************************************************************)
(* The state of one create() instance.                                     *)
(***************************************************************************)
VARIABLES
    options,          \* context.options[0] || {}
    thrown,           \* create() threw: there is no instance and no handler
    properties,       \* "always" or "never"
    allowedPrefixes,  \* [defined, arr]: strings and RegExps
    allowedSuffixes,
    exceptions,
    lastIndex,        \* [prefixes, suffixes, exceptions]: each RegExp's lastIndex
    reported,         \* the reported nodes, in order
    emitted,          \* the context.report calls made, in order
    program,          \* the root of the tree being traversed (0: none)
    visited,          \* the nodes the walker has handed to the handler
    last,             \* the latest Identifier call: its node, its name (the
                      \* checkable name), whether the exceptions matched,
                      \* whether report(node) was called, whether the node
                      \* was in reported already, and whether the node had
                      \* been visited before
    arg,              \* string specification: the identifier under test
    ret               \* string specification: the latest helper call, its
                      \* input and output, isUnderscored of the output, and
                      \* lastIndex before the call

vars == <<options, thrown, properties, allowedPrefixes, allowedSuffixes, exceptions,
          lastIndex, reported, emitted, program, visited, last, arg, ret>>

config == <<options, thrown, properties, allowedPrefixes, allowedSuffixes, exceptions>>

\* if (allowedPrefixes) name = removePrefix(name, allowedPrefixes)
stripPrefix(name) ==
    IF allowedPrefixes.defined
    THEN removePrefix(name, allowedPrefixes.arr, lastIndex.prefixes)
    ELSE [value |-> name, li |-> lastIndex.prefixes]

\* if (allowedSuffixes) name = removeSuffix(name, allowedSuffixes)
stripSuffix(name) ==
    IF allowedSuffixes.defined
    THEN removeSuffix(name, allowedSuffixes.arr, lastIndex.suffixes)
    ELSE [value |-> name, li |-> lastIndex.suffixes]

checkableResult(p, s) == [name |-> s.value, prefixes |-> p.li, suffixes |-> s.li]

checkableAfterPrefix(p) == checkableResult(p, stripSuffix(p.value))

\* checkableName(name) in the current state: the name to check, and the
\* lastIndex values its exec calls leave in the prefixes and suffixes.
checkableName(name) == checkableAfterPrefix(stripPrefix(trimUnderscores(name)))

\* if (exceptions && matchExceptions(name, exceptions))
isExcepted(name) ==
    IF exceptions.defined
    THEN matchExceptions(name, exceptions.arr, lastIndex.exceptions)
    ELSE [isException |-> FALSE, li |-> lastIndex.exceptions]

(***************************************************************************)
(* The syntax trees the external walker hands to the rule.                 *)
(***************************************************************************)
\* One node of the syntax tree; 0 is an absent child or parent.
Node(type, name, parent, object, property, left, right, key, value, callee) ==
    [type |-> type, name |-> name, parent |-> parent, object |-> object,
     property |-> property, left |-> left, right |-> right, key |-> key,
     value |-> value, callee |-> callee]

\* The trees the rule is run on, one statement each; a node's id is its
\* position.  Columns: type, name, parent, object, property, left, right,
\* key, value, callee.
AST == <<
    \* a_b = 0
    Node("Identifier", <<"a","_","b">>, 3, 0, 0, 0, 0, 0, 0, 0),
    Node("Literal", <<>>, 3, 0, 0, 0, 0, 0, 0, 0),
    Node("AssignmentExpression", <<>>, 4, 0, 0, 1, 2, 0, 0, 0),
    Node("ExpressionStatement", <<>>, 0, 0, 0, 0, 0, 0, 0, 0),
    \* A_B = 0
    Node("Identifier", <<"A","_","B">>, 7, 0, 0, 0, 0, 0, 0, 0),
    Node("Literal", <<>>, 7, 0, 0, 0, 0, 0, 0, 0),
    Node("AssignmentExpression", <<>>, 8, 0, 0, 5, 6, 0, 0, 0),
    Node("ExpressionStatement", <<>>, 0, 0, 0, 0, 0, 0, 0, 0),
    \* __a_b = 0
    Node("Identifier", <<"_","_","a","_","b">>, 11, 0, 0, 0, 0, 0, 0, 0),
    Node("Literal", <<>>, 11, 0, 0, 0, 0, 0, 0, 0),
    Node("AssignmentExpression", <<>>, 12, 0, 0, 9, 10, 0, 0, 0),
    Node("ExpressionStatement", <<>>, 0, 0, 0, 0, 0, 0, 0, 0),
    \* aB_ = 0
    Node("Identifier", <<"a","B","_">>, 15, 0, 0, 0, 0, 0, 0, 0),
    Node("Literal", <<>>, 15, 0, 0, 0, 0, 0, 0, 0),
    Node("AssignmentExpression", <<>>, 16, 0, 0, 13, 14, 0, 0, 0),
    Node("ExpressionStatement", <<>>, 0, 0, 0, 0, 0, 0, 0, 0),
    \* a_b = a_b
    Node("Identifier", <<"a","_","b">>, 19, 0, 0, 0, 0, 0, 0, 0),
    Node("Identifier", <<"a","_","b">>, 19, 0, 0, 0, 0, 0, 0, 0),
    Node("AssignmentExpression", <<>>, 20, 0, 0, 17, 18, 0, 0, 0),
    Node("ExpressionStatement", <<>>, 0, 0, 0, 0, 0, 0, 0, 0),
    \* do_it()
    Node("Identifier", <<"d","o","_","i","t">>, 22, 0, 0, 0, 0, 0, 0, 0),
    Node("CallExpression", <<>>, 23, 0, 0, 0, 0, 0, 0, 21),
    Node("ExpressionStatement", <<>>, 0, 0, 0, 0, 0, 0, 0, 0),
    \* foo(b_c)
    Node("Identifier", <<"f","o","o">>, 26, 0, 0, 0, 0, 0, 0, 0),
    Node("Identifier", <<"b","_","c">>, 26, 0, 0, 0, 0, 0, 0, 0),
    Node("CallExpression", <<>>, 27, 0, 0, 0, 0, 0, 0, 24),
    Node("ExpressionStatement", <<>>, 0, 0, 0, 0, 0, 0, 0, 0),
    \* foo.do_it()
    Node("Identifier", <<"f","o","o">>, 30, 0, 0, 0, 0, 0, 0, 0),
    Node("Identifier", <<"d","o","_","i","t">>, 30, 0, 0, 0, 0, 0, 0, 0),
    Node("MemberExpression", <<>>, 31, 28, 29, 0, 0, 0, 0, 0),
    Node("CallExpression", <<>>, 32, 0, 0, 0, 0, 0, 0, 30),
    Node("ExpressionStatement", <<>>, 0, 0, 0, 0, 0, 0, 0, 0),
    \* do_it.do_it()
    Node("Identifier", <<"d","o","_","i","t">>, 35, 0, 0, 0, 0, 0, 0, 0),
    Node("Identifier", <<"d","o","_","i","t">>, 35, 0, 0, 0, 0, 0, 0, 0),
    Node("MemberExpression", <<>>, 36, 33, 34, 0, 0, 0, 0, 0),
    Node("CallExpression", <<>>, 37, 0, 0, 0, 0, 0, 0, 35),
    Node("ExpressionStatement", <<>>, 0, 0, 0, 0, 0, 0, 0, 0),
    \* obj.a_b = 2
    Node("Identifier", <<"o","b","j">>, 40, 0, 0, 0, 0, 0, 0, 0),
    Node("Identifier", <<"a","_","b">>, 40, 0, 0, 0, 0, 0, 0, 0),
    Node("MemberExpression", <<>>, 42, 38, 39, 0, 0, 0, 0, 0),
    Node("Literal", <<>>, 42, 0, 0, 0, 0, 0, 0, 0),
    Node("AssignmentExpression", <<>>, 43, 0, 0, 40, 41, 0, 0, 0),
    Node("ExpressionStatement", <<>>, 0, 0, 0, 0, 0, 0, 0, 0),
    \* foo.qux.a_b = {}
    Node("Identifier", <<"f","o","o">>, 46, 0, 0, 0, 0, 0, 0, 0),
    Node("Identifier", <<"q","u","x">>, 46, 0, 0, 0, 0, 0, 0, 0),
    Node("MemberExpression", <<>>, 48, 44, 45, 0, 0, 0, 0, 0),
    Node("Identifier", <<"a","_","b">>, 48, 0, 0, 0, 0, 0, 0, 0),
    Node("MemberExpression", <<>>, 50, 46, 47, 0, 0, 0, 0, 0),
    Node("ObjectExpression", <<>>, 50, 0, 0, 0, 0, 0, 0, 0),
    Node("AssignmentExpression", <<>>, 51, 0, 0, 48, 49, 0, 0, 0),
    Node("ExpressionStatement", <<>>, 0, 0, 0, 0, 0, 0, 0, 0),
    \* foo.a_b = boom.c_d
    Node("Identifier", <<"f","o","o">>, 54, 0, 0, 0, 0, 0, 0, 0),
    Node("Identifier", <<"a","_","b">>, 54, 0, 0, 0, 0, 0, 0, 0),
    Node("MemberExpression", <<>>, 58, 52, 53, 0, 0, 0, 0, 0),
    Node("Identifier", <<"b","o","o","m">>, 57, 0, 0, 0, 0, 0, 0, 0),
    Node("Identifier", <<"c","_","d">>, 57, 0, 0, 0, 0, 0, 0, 0),
    Node("MemberExpression", <<>>, 58, 55, 56, 0, 0, 0, 0, 0),
    Node("AssignmentExpression", <<>>, 59, 0, 0, 54, 57, 0, 0, 0),
    Node("ExpressionStatement", <<>>, 0, 0, 0, 0, 0, 0, 0, 0),
    \* foo.a_b = boom.a_b
    Node("Identifier", <<"f","o","o">>, 62, 0, 0, 0, 0, 0, 0, 0),
    Node("Identifier", <<"a","_","b">>, 62, 0, 0, 0, 0, 0, 0, 0),
    Node("MemberExpression", <<>>, 66, 60, 61, 0, 0, 0, 0, 0),
    Node("Identifier", <<"b","o","o","m">>, 65, 0, 0, 0, 0, 0, 0, 0),
    Node("Identifier", <<"a","_","b">>, 65, 0, 0, 0, 0, 0, 0, 0),
    Node("MemberExpression", <<>>, 66, 63, 64, 0, 0, 0, 0, 0),
    Node("AssignmentExpression", <<>>, 67, 0, 0, 62, 65, 0, 0, 0),
    Node("ExpressionStatement", <<>>, 0, 0, 0, 0, 0, 0, 0, 0),
    \* x = bar.a_b
    Node("Identifier", <<"x">>, 72, 0, 0, 0, 0, 0, 0, 0),
    Node("Identifier", <<"b","a","r">>, 71, 0, 0, 0, 0, 0, 0, 0),
    Node("Identifier", <<"a","_","b">>, 71, 0, 0, 0, 0, 0, 0, 0),
    Node("MemberExpression", <<>>, 72, 69, 70, 0, 0, 0, 0, 0),
    Node("AssignmentExpression", <<>>, 73, 0, 0, 68, 71, 0, 0, 0),
    Node("ExpressionStatement", <<>>, 0, 0, 0, 0, 0, 0, 0, 0),
    \* var foo = bar.a_b
    Node("Identifier", <<"f","o","o">>, 78, 0, 0, 0, 0, 0, 0, 0),
    Node("Identifier", <<"b","a","r">>, 77, 0, 0, 0, 0, 0, 0, 0),
    Node("Identifier", <<"a","_","b">>, 77, 0, 0, 0, 0, 0, 0, 0),
    Node("MemberExpression", <<>>, 78, 75, 76, 0, 0, 0, 0, 0),
    Node("VariableDeclarator", <<>>, 79, 0, 0, 0, 0, 0, 0, 0),
    Node("VariableDeclaration", <<>>, 0, 0, 0, 0, 0, 0, 0, 0),
    \* if (bar.a_b) {}
    Node("Identifier", <<"b","a","r">>, 82, 0, 0, 0, 0, 0, 0, 0),
    Node("Identifier", <<"a","_","b">>, 82, 0, 0, 0, 0, 0, 0, 0),
    Node("MemberExpression", <<>>, 83, 80, 81, 0, 0, 0, 0, 0),
    Node("IfStatement", <<>>, 0, 0, 0, 0, 0, 0, 0, 0),
    \* x = a_b.a_b
    Node("Identifier", <<"x">>, 88, 0, 0, 0, 0, 0, 0, 0),
    Node("Identifier", <<"a","_","b">>, 87, 0, 0, 0, 0, 0, 0, 0),
    Node("Identifier", <<"a","_","b">>, 87, 0, 0, 0, 0, 0, 0, 0),
    Node("MemberExpression", <<>>, 88, 85, 86, 0, 0, 0, 0, 0),
    Node("AssignmentExpression", <<>>, 89, 0, 0, 84, 87, 0, 0, 0),
    Node("ExpressionStatement", <<>>, 0, 0, 0, 0, 0, 0, 0, 0),
    \* b_c.foo = 1
    Node("Identifier", <<"b","_","c">>, 92, 0, 0, 0, 0, 0, 0, 0),
    Node("Identifier", <<"f","o","o">>, 92, 0, 0, 0, 0, 0, 0, 0),
    Node("MemberExpression", <<>>, 94, 90, 91, 0, 0, 0, 0, 0),
    Node("Literal", <<>>, 94, 0, 0, 0, 0, 0, 0, 0),
    Node("AssignmentExpression", <<>>, 95, 0, 0, 92, 93, 0, 0, 0),
    Node("ExpressionStatement", <<>>, 0, 0, 0, 0, 0, 0, 0, 0),
    \* var o = {a_b: 1}
    Node("Identifier", <<"o">>, 101, 0, 0, 0, 0, 0, 0, 0),
    Node("Identifier", <<"a","_","b">>, 99, 0, 0, 0, 0, 0, 0, 0),
    Node("Literal", <<>>, 99, 0, 0, 0, 0, 0, 0, 0),
    Node("Property", <<>>, 100, 0, 0, 0, 0, 97, 98, 0),
    Node("ObjectExpression", <<>>, 101, 0, 0, 0, 0, 0, 0, 0),
    Node("VariableDeclarator", <<>>, 102, 0, 0, 0, 0, 0, 0, 0),
    Node("VariableDeclaration", <<>>, 0, 0, 0, 0, 0, 0, 0, 0),
    \* var {c_id: c_x} = q
    Node("Identifier", <<"c","_","i","d">>, 105, 0, 0, 0, 0, 0, 0, 0),
    Node("Identifier", <<"c","_","x">>, 105, 0, 0, 0, 0, 0, 0, 0),
    Node("Property", <<>>, 106, 0, 0, 0, 0, 103, 104, 0),
    Node("ObjectPattern", <<>>, 108, 0, 0, 0, 0, 0, 0, 0),
    Node("Identifier", <<"q">>, 108, 0, 0, 0, 0, 0, 0, 0),
    Node("VariableDeclarator", <<>>, 109, 0, 0, 0, 0, 0, 0, 0),
    Node("VariableDeclaration", <<>>, 0, 0, 0, 0, 0, 0, 0, 0),
    \* var {c_id} = q
    Node("Identifier", <<"c","_","i","d">>, 111, 0, 0, 0, 0, 0, 0, 0),
    Node("Property", <<>>, 112, 0, 0, 0, 0, 110, 110, 0),
    Node("ObjectPattern", <<>>, 114, 0, 0, 0, 0, 0, 0, 0),
    Node("Identifier", <<"q">>, 114, 0, 0, 0, 0, 0, 0, 0),
    Node("VariableDeclarator", <<>>, 115, 0, 0, 0, 0, 0, 0, 0),
    Node("VariableDeclaration", <<>>, 0, 0, 0, 0, 0, 0, 0, 0),
    \* opt_opt_id = 0
    Node("Identifier", <<"o","p","t","_","o","p","t","_","i","d">>, 118, 0, 0, 0, 0, 0, 0, 0),
    Node("Literal", <<>>, 118, 0, 0, 0, 0, 0, 0, 0),
    Node("AssignmentExpression", <<>>, 119, 0, 0, 116, 117, 0, 0, 0),
    Node("ExpressionStatement", <<>>, 0, 0, 0, 0, 0, 0, 0, 0),
    \* xopt_camelCase = 0
    Node("Identifier", <<"x","o","p","t","_","c","a","m","e","l","C","a","s","e">>, 122, 0, 0, 0, 0, 0, 0, 0),
    Node("Literal", <<>>, 122, 0, 0, 0, 0, 0, 0, 0),
    Node("AssignmentExpression", <<>>, 123, 0, 0, 120, 121, 0, 0, 0),
    Node("ExpressionStatement", <<>>, 0, 0, 0, 0, 0, 0, 0, 0),
    \* var_args = 0
    Node("Identifier", <<"v","a","r","_","a","r","g","s">>, 126, 0, 0, 0, 0, 0, 0, 0),
    Node("Literal", <<>>, 126, 0, 0, 0, 0, 0, 0, 0),
    Node("AssignmentExpression", <<>>, 127, 0, 0, 124, 125, 0, 0, 0),
    Node("ExpressionStatement", <<>>, 0, 0, 0, 0, 0, 0, 0, 0),
    \* xvar_args = 0
    Node("Identifier", <<"x","v","a","r","_","a","r","g","s">>, 130, 0, 0, 0, 0, 0, 0, 0),
    Node("Literal", <<>>, 130, 0, 0, 0, 0, 0, 0, 0),
    Node("AssignmentExpression", <<>>, 131, 0, 0, 128, 129, 0, 0, 0),
    Node("ExpressionStatement", <<>>, 0, 0, 0, 0, 0, 0, 0, 0),
    \* foo.var_args = 1
    Node("Identifier", <<"f","o","o">>, 134, 0, 0, 0, 0, 0, 0, 0),
    Node("Identifier", <<"v","a","r","_","a","r","g","s">>, 134, 0, 0, 0, 0, 0, 0, 0),
    Node("MemberExpression", <<>>, 136, 132, 133, 0, 0, 0, 0, 0),
    Node("Literal", <<>>, 136, 0, 0, 0, 0, 0, 0, 0),
    Node("AssignmentExpression", <<>>, 137, 0, 0, 134, 135, 0, 0, 0),
    Node("ExpressionStatement", <<>>, 0, 0, 0, 0, 0, 0, 0, 0),
    \* var o = {var_args: 1}
    Node("Identifier", <<"o">>, 143, 0, 0, 0, 0, 0, 0, 0),
    Node("Identifier", <<"v","a","r","_","a","r","g","s">>, 141, 0, 0, 0, 0, 0, 0, 0),
    Node("Literal", <<>>, 141, 0, 0, 0, 0, 0, 0, 0),
    Node("Property", <<>>, 142, 0, 0, 0, 0, 139, 140, 0),
    Node("ObjectExpression", <<>>, 143, 0, 0, 0, 0, 0, 0, 0),
    Node("VariableDeclarator", <<>>, 144, 0, 0, 0, 0, 0, 0, 0),
    Node("VariableDeclaration", <<>>, 0, 0, 0, 0, 0, 0, 0, 0)
    >>

Nodes == DOMAIN AST

RECURSIVE rootOf(_)
rootOf(n) == IF AST[n].parent = 0 THEN n ELSE rootOf(AST[n].parent)

\* the statements: the roots of the trees
Programs == {n \in Nodes : AST[n].parent = 0}

\* the Identifier nodes the walker visits in the tree under each root
identifiersOf ==
    [root \in Programs |-> {n \in Nodes : AST[n].type = "Identifier" /\ rootOf(n) = root}]

(***************************************************************************)
(* The options the rule is created with.                                   *)
(***************************************************************************)
Absent == [defined |-> FALSE, arr |-> <<>>]

Arr(a) == [defined |-> TRUE, arr |-> a]

\* An atom of a pattern: the characters it matches, its quantifier, and
\* whether it is a literal character of the pattern (x, not [x] or x?).
\* a literal code unit
Char(c) == [cls |-> {<<c>>}, q |-> "1", lit |-> TRUE]

\* a literal character of a u-flag pattern, as its one or two code units
CharOf(ch) == [cls |-> {ch}, q |-> "1", lit |-> TRUE]

\* atoms over a class of code units
One(cls) == [cls |-> {<<c>> : c \in cls}, q |-> "1", lit |-> FALSE]

Opt(cls) == [cls |-> {<<c>> : c \in cls}, q |-> "?", lit |-> FALSE]

Plus(cls) == [cls |-> {<<c>> : c \in cls}, q |-> "+", lit |-> FALSE]

\* an atom of a u-flag pattern over a class of characters, each its one or
\* two code units
OneOf(chars) == [cls |-> chars, q |-> "1", lit |-> FALSE]

Options(p, pre, suf, exc) ==
    [properties |-> p, allowedPrefixes |-> pre, allowedSuffixes |-> suf, exceptions |-> exc]

\* options of the tree specification; "" is an absent properties option
RunOptions ==
    { Options("", Absent, Absent, Absent),
      Options("never", Absent, Absent, Absent),
      Options("always", Absent, Absent, Absent),
      \* allowedPrefixes: ["opt_", "o_"]
      Options("", Arr(<<Str(<<"o","p","t","_">>), Str(<<"o","_">>)>>), Absent, Absent),
      \* allowedPrefixes: [/o?pt_/i], allowedSuffixes: ["_d", /_i?d/]
      Options("", Arr(<<Re(<<Opt({"o"}), Char("p"), Char("t"), Char("_")>>, <<"i">>)>>),
                  Arr(<<Str(<<"_","d">>), Re(<<Char("_"), Opt({"i"}), Char("d")>>, <<>>)>>),
                  Absent),
      \* exceptions: ["var_args", "a_b"]
      Options("", Absent, Absent,
              Arr(<<Str(<<"v","a","r","_","a","r","g","s">>), Str(<<"a","_","b">>)>>)),
      \* exceptions: [/R_A/i]
      Options("", Absent, Absent, Arr(<<Re(<<Char("R"), Char("_"), Char("A")>>, <<"i">>)>>)),
      \* exceptions: [/_/g]
      Options("", Absent, Absent, Arr(<<Re(<<Char("_")>>, <<"g">>)>>)),
      \* properties: "never", exceptions: ["a_b"]
      Options("never", Absent, Absent, Arr(<<Str(<<"a","_","b">>)>>)),
      \* allowedSuffixes: [/_[bd]/g]
      Options("", Absent, Arr(<<Re(<<Char("_"), One({"b","d"})>>, <<"g">>)>>), Absent),
      \* allowedPrefixes: [/[ab]+_/g]
      Options("", Arr(<<Re(<<Plus({"a","b"}), Char("_")>>, <<"g">>)>>), Absent, Absent),
      \* exceptions: [/_b/y]
      Options("", Absent, Absent, Arr(<<Re(<<Char("_"), Char("b")>>, <<"y">>)>>)),
      \* allowedPrefixes: [/A_/giu], allowedSuffixes: [/_b/ms]
      Options("", Arr(<<Re(<<Char("A"), Char("_")>>, <<"g","i","u">>)>>),
                  Arr(<<Re(<<Char("_"), Char("b")>>, <<"m","s">>)>>), Absent),
      \* exceptions: ["a_b", /_/gg]: new RegExp throws
      Options("", Absent, Absent,
              Arr(<<Str(<<"a","_","b">>), Re(<<Char("_")>>, <<"g","g">>)>>)) }

\* the characters of the generated identifiers
Sigma == {"a", "b", "B", "_"}

\* identifiers of the tests' affix cases, and identifiers with letters
\* outside ASCII
ExampleNames ==
    { <<"o","p","t","_","o","p","t","_","i","d">>,
      <<"x","o","p","t","_","c","a","m","e","l","C","a","s","e">>,
      <<"o","p","t","_","c","a","m","e","l","C","a","s","e">>,
      <<"_","o","p","t","_","c","a","m","e","l","C","a","s","e">>,
      <<"F","O","O","_","B","A","R">>,
      <<"F","o","o","_","B","A","R">>,
      <<"f","o","o","_","b","a","r">>,
      <<"f","o","o">>,
      <<"é","_","É">>,
      <<"É","_","É">>,
      <<"ß","_","A">>,
      <<"S","S","_","A">>,
      <<"µ","_","B">>,
      <<"à","_","À">>,
      <<"ÿ","_","U+0178">>,
      <<"U+0178","_","U+0178">>,
      \* U+019B and its upper-case form U+A7DC
      <<"ƛ","_","A">>,
      <<"Ƛ","_","A">>,
      \* U+10428 and its upper-case form U+10400
      <<"U+D801","U+DC28","_","a">>,
      <<"U+D801","U+DC28","_","A">>,
      <<"U+D801","U+DC00","_","A">>,
      <<"A","_","U+D801","U+DC00">>,
      \* a low surrogate before a high one: no pair
      <<"U+DC28","U+D801","_","A">> }

\* the identifiers of the string specification
Names == (UNION {[1..n -> Sigma] : n \in 1..MaxLen}) \cup ExampleNames

\* options of the string specification
StrOptions ==
    { Options("", Absent, Absent, Absent),
      \* allowedPrefixes: ["opt_", "o_"]
      Options("", Arr(<<Str(<<"o","p","t","_">>), Str(<<"o","_">>)>>), Absent, Absent),
      \* allowedPrefixes: ["a_", "b"], allowedSuffixes: ["_b", "b"]
      Options("", Arr(<<Str(<<"a","_">>), Str(<<"b">>)>>),
                  Arr(<<Str(<<"_","b">>), Str(<<"b">>)>>), Absent),
      \* allowedPrefixes: ["a_b", "a_"]
      Options("", Arr(<<Str(<<"a","_","b">>), Str(<<"a","_">>)>>), Absent, Absent),
      \* allowedPrefixes: [/a+_/], allowedSuffixes: [/_B?b/]
      Options("", Arr(<<Re(<<Plus({"a"}), Char("_")>>, <<>>)>>),
                  Arr(<<Re(<<Char("_"), Opt({"B"}), Char("b")>>, <<>>)>>), Absent),
      \* allowedPrefixes: [/b_/i, "a"], allowedSuffixes: ["_a"]
      Options("", Arr(<<Re(<<Char("b"), Char("_")>>, <<"i">>), Str(<<"a">>)>>),
                  Arr(<<Str(<<"_","a">>)>>), Absent),
      \* allowedPrefixes: [/a+_/g], allowedSuffixes: [/_?b/g, "_a"]
      Options("", Arr(<<Re(<<Plus({"a"}), Char("_")>>, <<"g">>)>>),
                  Arr(<<Re(<<Opt({"_"}), Char("b")>>, <<"g">>), Str(<<"_","a">>)>>), Absent),
      \* allowedPrefixes: [/\uD801/], allowedSuffixes: [/\uDC00/]: a high and a
      \* low surrogate on their own
      Options("", Arr(<<Re(<<Char("U+D801")>>, <<>>)>>),
                  Arr(<<Re(<<Char("U+DC00")>>, <<>>)>>), Absent),
      \* allowedPrefixes: [/\u{10428}_?/iu], allowedSuffixes: [/_?\u{10400}/u]
      Options("", Arr(<<Re(<<CharOf(<<"U+D801","U+DC28">>), Opt({"_"})>>, <<"i","u">>)>>),
                  Arr(<<Re(<<Opt({"_"}), CharOf(<<"U+D801","U+DC00">>)>>, <<"u">>)>>), Absent),
      \* allowedPrefixes: [/b_/y, /a+/gy], allowedSuffixes: [/_?[ab]/gu]
      Options("", Arr(<<Re(<<Char("b"), Char("_")>>, <<"y">>),
                        Re(<<Plus({"a"})>>, <<"g","y">>)>>),
                  Arr(<<Re(<<Opt({"_"}), One({"a","b"})>>, <<"g","u">>)>>), Absent),
      \* allowedPrefixes: [/\u{10428}/gu], allowedSuffixes: [/[\u{10400}\u{10428}]/gu]
      Options("", Arr(<<Re(<<CharOf(<<"U+D801","U+DC28">>)>>, <<"g","u">>)>>),
                  Arr(<<Re(<<OneOf({<<"U+D801","U+DC00">>, <<"U+D801","U+DC28">>})>>,
                           <<"g","u">>)>>), Absent),
      \* allowedPrefixes: [/a_/ with flags U+0167, read as g]
      Options("", Arr(<<Re(<<Char("a"), Char("_")>>, <<"U+0167">>)>>), Absent, Absent) }

(***************************************************************************)
(* create(context): the resolved configuration.                            *)
(***************************************************************************)
\* options.properties || "", then anything but "always"/"never" is "always"
resolveProperties(o) ==
    IF o.properties # "always" /\ o.properties # "never" THEN "always" ELSE o.properties

zeros(a) == [k \in 1..Len(a.arr) |-> 0]

\* processArrayOfStringOrRegExp(iv) throws: new RegExp rejects the flags of
\* one of its elements
throwsIn(iv) ==
    /\ iv.defined
    /\ \E k \in DOMAIN iv.arr : processElement(iv.arr[k]).type = "SyntaxError"

throws(o) ==
    throwsIn(o.allowedPrefixes) \/ throwsIn(o.allowedSuffixes) \/ throwsIn(o.exceptions)

\* the processed option, undefined when create() threw
processed(o, iv) ==
    IF throws(o) THEN [defined |-> FALSE, arr |-> <<>>]
    ELSE processArrayOfStringOrRegExp(iv)

\* create(context) with context.options[0] = o.  When it throws nothing of
\* the instance exists: the options stay as they were given.
create(o) ==
    /\ options = o
    /\ thrown = throws(o)
    /\ properties = IF throws(o) THEN o.properties ELSE resolveProperties(o)
    /\ allowedPrefixes = processed(o, o.allowedPrefixes)
    /\ allowedSuffixes = processed(o, o.allowedSuffixes)
    /\ exceptions = processed(o, o.exceptions)
    /\ lastIndex = [prefixes |-> zeros(processed(o, o.allowedPrefixes)),
                    suffixes |-> zeros(processed(o, o.allowedSuffixes)),
                    exceptions |-> zeros(processed(o, o.exceptions))]
    /\ reported = <<>>
    /\ emitted = <<>>

NoCall == [op |-> "none", in |-> <<>>, out |-> <<>>, verdict |-> FALSE,
           before |-> [prefixes |-> <<>>, suffixes |-> <<>>, exceptions |-> <<>>]]

NoVisit == [node |-> 0, name |-> <<>>, isException |-> FALSE, called |-> FALSE,
            already |-> FALSE, revisit |-> FALSE]

(***************************************************************************)
(* The Identifier handler.                                                 *)
(***************************************************************************)
\* report without its reported.indexOf(node) test
reportAlways(node) ==
    [reported |-> Append(reported, node),
     emitted |-> Append(emitted, [node |-> node, name |-> AST[node].name])]

\* report(node): the reported list and the context.report calls afterwards
report(node) ==
    IF indexOf(reported, node) < 0
    THEN [reported |-> Append(reported, node),
          emitted |-> Append(emitted, [node |-> node, name |-> AST[node].name])]
    ELSE [reported |-> reported, emitted |-> emitted]

\* (node.parent.type === "MemberExpression") ? node.parent.parent : node.parent
effectiveParentOf(parent) ==
    IF parent.type = "MemberExpression" THEN AST[parent.parent] ELSE parent

\* reportsMember reporting an assignment only when its right side is no
\* member access
reportsMemberRightOnly(node, parent, effectiveParent, underscored) ==
    IF properties = "never" THEN FALSE
    ELSE IF /\ AST[parent.object].type = "Identifier"
            /\ AST[parent.object].name = AST[node].name
            /\ underscored
         THEN TRUE
         ELSE /\ effectiveParent.type = "AssignmentExpression"
              /\ underscored
              /\ AST[effectiveParent.right].type # "MemberExpression"

\* The branch for node.parent.type === "MemberExpression": whether
\* report(node) is reached.
reportsMember(node, parent, effectiveParent, underscored) ==
    IF properties = "never" THEN FALSE
    ELSE IF /\ AST[parent.object].type = "Identifier"
            /\ AST[parent.object].name = AST[node].name
            /\ underscored
         THEN TRUE
         ELSE /\ effectiveParent.type = "AssignmentExpression"
              /\ underscored
              /\ \/ AST[effectiveParent.right].type # "MemberExpression"
                 \/ /\ AST[effectiveParent.left].type = "MemberExpression"
                    /\ AST[AST[effectiveParent.left].property].name = AST[node].name

\* reportsProperty without its "never" test
reportsPropertyAlways(node, parent, effectiveParent, underscored) ==
    IF /\ parent.parent # 0
       /\ AST[parent.parent].type = "ObjectPattern"
       /\ parent.key = node
       /\ parent.value # node
    THEN FALSE
    ELSE underscored /\ effectiveParent.type # "CallExpression"

\* reportsProperty exempting every pattern key, shorthand or not
reportsPropertyKeyExempt(node, parent, effectiveParent, underscored) ==
    IF properties = "never" THEN FALSE
    ELSE IF /\ parent.parent # 0
            /\ AST[parent.parent].type = "ObjectPattern"
            /\ parent.key = node
         THEN FALSE
         ELSE underscored /\ effectiveParent.type # "CallExpression"

\* The branch for node.parent.type === "Property".
reportsProperty(node, parent, effectiveParent, underscored) ==
    IF properties = "never" THEN FALSE
    ELSE IF /\ parent.parent # 0
            /\ AST[parent.parent].type = "ObjectPattern"
            /\ parent.key = node
            /\ parent.value # node
         THEN FALSE
         ELSE underscored /\ effectiveParent.type # "CallExpression"

\* reportsBare without its CallExpression test
reportsBareAnywhere(effectiveParent, underscored) == underscored

\* The last branch: anything underscored that isn't a CallExpression.
reportsBare(effectiveParent, underscored) ==
    underscored /\ effectiveParent.type # "CallExpression"

\* The handler's branches past its exceptions test: whether report(node) is
\* reached.  parent is node.parent, underscored is isUnderscored(name).
reportsAt(node, parent, effectiveParent, underscored) ==
    IF parent.type = "MemberExpression"
    THEN reportsMember(node, parent, effectiveParent, underscored)
    ELSE IF parent.type = "Property"
    THEN reportsProperty(node, parent, effectiveParent, underscored)
    ELSE reportsBare(effectiveParent, underscored)

reportsIn(node, parent, underscored) ==
    reportsAt(node, parent, effectiveParentOf(parent), underscored)

\* name is checkableName(node.name)
reports(node, name) == reportsIn(node, AST[AST[node].parent], isUnderscored(name))

\* the handler's effect, called saying whether it reached report(node)
finish(node, cn, ex, called) ==
    /\ lastIndex' = [prefixes |-> cn.prefixes, suffixes |-> cn.suffixes,
                     exceptions |-> ex.li]
    /\ reported' = IF called THEN report(node).reported ELSE reported
    /\ emitted' = IF called THEN report(node).emitted ELSE emitted
    /\ last' = [node |-> node, name |-> cn.name,
                isException |-> ex.isException, called |-> called,
                already |-> called /\ indexOf(reported, node) >= 0,
                revisit |-> node \in visited]
    /\ visited' = visited \cup {node}

\* the handler from its exceptions test on
decide(node, cn, ex) ==
    finish(node, cn, ex, ~ex.isException /\ reports(node, cn.name))

handle(node, cn) == decide(node, cn, isExcepted(cn.name))

\* The walker calls the handler on an Identifier node of the tree, any node
\* any number of times.
Identifier(node) ==
    /\ ~thrown
    /\ program \in Programs
    /\ node \in identifiersOf[program]
    /\ handle(node, checkableName(AST[node].name))
    /\ UNCHANGED <<config, program, arg, ret>>

\* One run: a rule instance created with some options, on one tree.
Init ==
    /\ \E o \in RunOptions : create(o)
    /\ program \in Programs
    /\ visited = {}
    /\ last = NoVisit
    /\ arg = <<>>
    /\ ret = NoCall

Next == \E node \in Nodes : Identifier(node)

Spec == Init /\ [][Next]_vars

(***************************************************************************)
(* The helpers on their own: each applied to an identifier drawn from      *)
(* Names, under each of StrOptions.                                        *)
(***************************************************************************)
StrInit ==
    /\ \E o \in StrOptions : create(o)
    /\ program = 0
    /\ visited = {}
    /\ last = NoVisit
    /\ arg \in Names
    /\ ret = NoCall

\* a helper returned out, leaving the given lastIndex values
returns(op, in, out, prefixes, suffixes) ==
    /\ ~thrown
    /\ ret' = [op |-> op, in |-> in, out |-> out, verdict |-> isUnderscored(out),
               before |-> lastIndex]
    /\ lastIndex' = [lastIndex EXCEPT !.prefixes = prefixes, !.suffixes = suffixes]
    /\ UNCHANGED <<config, reported, emitted, program, visited, last, arg>>

returnsPrefix(r) == returns("removePrefix", arg, r.value, r.li, lastIndex.suffixes)

returnsSuffix(r) == returns("removeSuffix", arg, r.value, lastIndex.prefixes, r.li)

returnsName(op, in, cn) == returns(op, in, cn.name, cn.prefixes, cn.suffixes)

CallIsUnderscored ==
    /\ program = 0
    /\ returns("isUnderscored", arg, arg, lastIndex.prefixes, lastIndex.suffixes)

CallRemovePrefix ==
    /\ allowedPrefixes.defined
    /\ returnsPrefix(removePrefix(arg, allowedPrefixes.arr, lastIndex.prefixes))

CallRemoveSuffix ==
    /\ allowedSuffixes.defined
    /\ returnsSuffix(removeSuffix(arg, allowedSuffixes.arr, lastIndex.suffixes))

CallCheckableName ==
    /\ program = 0
    /\ returnsName("checkableName", arg, checkableName(arg))

\* checkableName applied to the name the previous call of it gave
CallCheckableNameAgain ==
    /\ ret.op = "checkableName"
    /\ returnsName("checkableNameAgain", ret.out, checkableName(ret.out))

StrNext ==
    \/ CallIsUnderscored
    \/ CallRemovePrefix
    \/ CallRemoveSuffix
    \/ CallCheckableName
    \/ CallCheckableNameAgain

SpecStr == StrInit /\ [][StrNext]_vars

(***************************************************************************)
(* Properties.                                                             *)
(***************************************************************************)
Range(s) == {s[i] : i \in DOMAIN s}

\* how often x occurs in the sequence s
Count(s, x) == Cardinality({i \in DOMAIN s : s[i] = x})

\* the ASCII letters a-z, written out
AsciiLower == {"a","b","c","d","e","f","g","h","i","j","k","l","m",
               "n","o","p","q","r","s","t","u","v","w","x","y","z"}

\* the ASCII characters of identifiers that upper-casing leaves alone
AsciiOther == {"A","B","C","D","E","F","G","H","I","J","K","L","M",
               "N","O","P","Q","R","S","T","U","V","W","X","Y","Z",
               "0","1","2","3","4","5","6","7","8","9","_","$"}

\* names that are style-violating: an underscore and a character that
\* upper-casing changes
ViolatingExamples ==
    { <<"f","o","o","_","b","a","r">>,
      <<"F","o","o","_","B","A","R">>,
      <<"é","_","É">>,
      <<"à","_","À">>,
      <<"ß","_","A">>,
      <<"µ","_","B">>,
      <<"ÿ","_","U+0178">>,
      <<"ƛ","_","A">>,
      <<"U+D801","U+DC28","_","a">>,
      <<"U+D801","U+DC28","_","A">> }

\* names that are not: no underscore, or nothing that upper-casing changes
\* (a surrogate outside a pair is not changed)
AcceptableExamples ==
    { <<"F","O","O","_","B","A","R">>,
      <<"f","o","o">>,
      <<"É","_","É">>,
      <<"S","S","_","A">>,
      <<"U+0178","_","U+0178">>,
      <<"Ƛ","_","A">>,
      <<"U+D801","U+DC00","_","A">>,
      <<"A","_","U+D801","U+DC00">>,
      <<"U+DC28","U+D801","_","A">> }

\* C1: isUnderscored(n) is true iff n contains an underscore and n differs
\* from its upper-cased form: FOO_BAR and foo are not violating, foo_bar and
\* Foo_BAR are.  For a name of ASCII characters that is an underscore and a
\* letter a-z; the examples with letters outside ASCII have the verdicts
\* the upper-casing of the language gives them.
C1_IsUnderscored ==
    ret.op = "isUnderscored" =>
        /\ ret.verdict <=>
              /\ \E k \in DOMAIN ret.in : ret.in[k] = "_"
              /\ ret.in # toUpperCase(ret.in)
        /\ (\A k \in DOMAIN ret.in : ret.in[k] \in AsciiLower \cup AsciiOther) =>
              (ret.verdict <=>
                  /\ \E k \in DOMAIN ret.in : ret.in[k] = "_"
                  /\ \E k \in DOMAIN ret.in : ret.in[k] \in AsciiLower)
        /\ ret.in \in ViolatingExamples => ret.verdict
        /\ ret.in \in AcceptableExamples => ~ret.verdict

\* isUnderscored was applied to an all-upper-case name with an underscore
C1_Witness ==
    /\ ret.op = "isUnderscored"
    /\ ret.in = <<"F","O","O","_","B","A","R">>
    /\ ~ret.verdict

\* C2: the reported list never holds a node twice, and the context.report
\* calls made are exactly its elements, one each, in order, with the node's
\* raw name.
C2_AtMostOnce ==
    /\ \A i, j \in DOMAIN reported : reported[i] = reported[j] => i = j
    /\ Len(emitted) = Len(reported)
    /\ \A i \in DOMAIN emitted :
          emitted[i] = [node |-> reported[i], name |-> AST[reported[i]].name]

\* report(node) was called on a node reported before and did nothing
C2_Witness ==
    /\ last.called
    /\ last.already
    /\ Count(reported, last.node) = 1
    /\ Len(emitted) = Len(reported)

\* the structural roles of an Identifier node
parentOf(n) == AST[AST[n].parent]

grandparentOf(n) == AST[parentOf(n).parent]

Visited == last.node # 0

\* neither under a member access nor under an object or pattern property
Bare(n) == parentOf(n).type \notin {"MemberExpression", "Property"}

\* the invoked expression of a call
Callee(n) == parentOf(n).type = "CallExpression" /\ parentOf(n).callee = n

\* the property (not the object) of a member access
MemberProperty(n) ==
    /\ parentOf(n).type = "MemberExpression"
    /\ parentOf(n).property = n

\* the property of a member access that is the left side of an assignment
AssignmentTarget(n) ==
    /\ MemberProperty(n)
    /\ grandparentOf(n).type = "AssignmentExpression"
    /\ grandparentOf(n).left = AST[n].parent

\* the property of a member access that is the right side of an assignment
\* to a member access with the same property name
SameNameRead(n) ==
    /\ MemberProperty(n)
    /\ grandparentOf(n).type = "AssignmentExpression"
    /\ grandparentOf(n).right = AST[n].parent
    /\ AST[grandparentOf(n).left].type = "MemberExpression"
    /\ AST[AST[grandparentOf(n).left].property].name = AST[n].name

\* the property of a member access that is the callee of a call
CalleeProperty(n) ==
    /\ MemberProperty(n)
    /\ grandparentOf(n).type = "CallExpression"
    /\ grandparentOf(n).callee = AST[n].parent

\* C3 as stated: a Bare identifier whose checkable name matches no
\* exception is reported iff the name is style-violating and the identifier
\* is not the callee of a call; so a violating argument of a call is reported.
C3_Original ==
    (Visited /\ Bare(last.node) /\ ~last.isException) =>
        (last.called <=> (isUnderscored(last.name) /\ ~Callee(last.node)))

\* C3 amended: a Bare identifier whose checkable name matches no exception
\* is reported iff the name is style-violating and the identifier's parent
\* is not a call expression: neither the callee nor an argument of a call
\* is reported.
C3_BareReported ==
    (Visited /\ Bare(last.node) /\ ~last.isException) =>
        /\ last.called <=>
              (isUnderscored(last.name) /\ parentOf(last.node).type # "CallExpression")
        /\ last.called => Count(reported, last.node) = 1

\* a style-violating argument of a call was visited and not reported
C3_Witness ==
    /\ Visited
    /\ Bare(last.node)
    /\ parentOf(last.node).type = "CallExpression"
    /\ ~Callee(last.node)
    /\ isUnderscored(last.name)
    /\ ~last.isException
    /\ ~last.called
    /\ last.node \notin Range(reported)

\* C4: with properties "never", no identifier under a member access (object
\* or property) or under an object or pattern property is reported, whatever
\* its name; a Bare identifier is reported by the same rule as under
\* "always".
C4_NeverSkipsProperties ==
    properties = "never" =>
        /\ \A n \in Range(reported) : Bare(n)
        /\ (Visited /\ ~Bare(last.node)) => ~last.called
        /\ (Visited /\ Bare(last.node)) =>
              (last.called <=>
                  /\ ~last.isException
                  /\ isUnderscored(last.name)
                  /\ parentOf(last.node).type # "CallExpression")

\* under "never" a style-violating assignment target obj.a_b was visited
\* and not reported
C4_Witness ==
    /\ properties = "never"
    /\ Visited
    /\ AssignmentTarget(last.node)
    /\ isUnderscored(last.name)
    /\ ~last.isException
    /\ ~last.called
    /\ reported = <<>>

\* C5: with properties "always", the property of a member access that is
\* the left side of an assignment, with a style-violating checkable name
\* that is no exception, is reported exactly once, whatever the right side.
C5_AssignmentTargetReported ==
    (/\ properties = "always"
     /\ Visited
     /\ AssignmentTarget(last.node)
     /\ isUnderscored(last.name)
     /\ ~last.isException) =>
        /\ last.called
        /\ Count(reported, last.node) = 1
        /\ Cardinality({i \in DOMAIN emitted : emitted[i].node = last.node}) = 1

\* the target of an assignment whose right side is a member access with
\* another property name was reported
C5_Witness ==
    /\ properties = "always"
    /\ Visited
    /\ AssignmentTarget(last.node)
    /\ AST[grandparentOf(last.node).right].type = "MemberExpression"
    /\ AST[AST[grandparentOf(last.node).right].property].name # AST[last.node].name
    /\ isUnderscored(last.name)
    /\ last.called
    /\ Count(reported, last.node) = 1

\* C6 as stated: with properties "always", the property of a member access
\* that is only read (not the left side of an assignment) is not reported,
\* unless the read is the right side of an assignment to a member access
\* with the same property name.  (The callee of a call is C7's case.)
C6_Original ==
    (/\ properties = "always"
     /\ Visited
     /\ MemberProperty(last.node)
     /\ ~AssignmentTarget(last.node)
     /\ ~CalleeProperty(last.node)
     /\ ~SameNameRead(last.node)) => ~last.called

\* C7 as stated: the property of a member access that is the callee of a
\* call is never reported, whatever the object and the property name.
C7_Original ==
    (Visited /\ CalleeProperty(last.node)) => ~last.called

\* t is a contiguous substring of s
Substring(t, s) ==
    \E i \in 0..Len(s) : i + Len(t) <= Len(s) /\ SubSeq(s, i + 1, i + Len(t)) = t

\* allowedPrefixes: ["opt_", "o_"]
OptPrefixes == Arr(<<Str(<<"o","p","t","_">>), Str(<<"o","_">>)>>)

\* C8: removePrefix applies the first allowed prefix, in declaration order,
\* that matches, and no other; removeSuffix likewise; a name nothing
\* matches is returned unchanged.  With allowedPrefixes ["opt_", "o_"],
\* opt_opt_id becomes opt_id, still violating, and xopt_camelCase stays
\* whole and violating.
C8_FirstMatchOnly ==
    /\ ret.op = "removePrefix" =>
          LET start(i) == startAfter(ret.in, allowedPrefixes.arr[i],
                                     ret.before.prefixes[i]).r
              all == 1..Len(allowedPrefixes.arr)
          IN  /\ (\A i \in all : start(i) < 0) => ret.out = ret.in
              /\ \A i \in all :
                    (start(i) >= 0 /\ \A j \in 1..(i - 1) : start(j) < 0) =>
                        ret.out = SubSeq(ret.in, start(i) + 1, Len(ret.in))
    /\ ret.op = "removeSuffix" =>
          LET ends(i) == endBefore(ret.in, allowedSuffixes.arr[i],
                                   ret.before.suffixes[i]).r
              all == 1..Len(allowedSuffixes.arr)
          IN  /\ (\A i \in all : ends(i) < 0) => ret.out = ret.in
              /\ \A i \in all :
                    (ends(i) >= 0 /\ \A j \in 1..(i - 1) : ends(j) < 0) =>
                        ret.out = SubSeq(ret.in, 1, ends(i))
    /\ (/\ options.allowedPrefixes = OptPrefixes
        /\ ret.op \in {"removePrefix", "checkableName"}
        /\ ret.in = <<"o","p","t","_","o","p","t","_","i","d">>) =>
          (ret.out = <<"o","p","t","_","i","d">> /\ ret.verdict)
    /\ (/\ options.allowedPrefixes = OptPrefixes
        /\ ret.op \in {"removePrefix", "checkableName"}
        /\ ret.in = <<"x","o","p","t","_","c","a","m","e","l","C","a","s","e">>) =>
          (ret.out = ret.in /\ ret.verdict)

\* removePrefix took "opt_" once from opt_opt_id, with "o_" allowed too
C8_Witness ==
    /\ options.allowedPrefixes = OptPrefixes
    /\ ret.op = "removePrefix"
    /\ ret.in = <<"o","p","t","_","o","p","t","_","i","d">>
    /\ ret.out = <<"o","p","t","_","i","d">>

\* C9 as stated: checkableName(checkableName(n)) = checkableName(n), for
\* every name and configuration.
C9_Original ==
    ret.op = "checkableNameAgain" => ret.out = ret.in

\* C9 amended: checkableName(checkableName(n)) is a contiguous substring of
\* checkableName(n), and equal to it when neither allowedPrefixes nor
\* allowedSuffixes is configured.
C9_IdempotentWithoutAffixes ==
    ret.op = "checkableNameAgain" =>
        /\ Substring(ret.out, ret.in)
        /\ (~allowedPrefixes.defined /\ ~allowedSuffixes.defined) => ret.out = ret.in

\* without affixes, a name with underscores to trim went through
\* checkableName twice
C9_Witness ==
    /\ ret.op = "checkableNameAgain"
    /\ ~allowedPrefixes.defined
    /\ ~allowedSuffixes.defined
    /\ Len(ret.in) > 0
    /\ Len(ret.in) < Len(arg)
    /\ ret.out = ret.in

\* name equals a literal exception, or a pattern exception, applied to it
\* as constructed (lastIndex 0), matches
Excepted(name) ==
    /\ exceptions.defined
    /\ \E i \in DOMAIN exceptions.arr :
          IF exceptions.arr[i].type = "string"
          THEN exceptions.arr[i].s = name
          ELSE exec(exceptions.arr[i], name, 0).index # -1

\* C10 as stated: an identifier whose checkable name equals a literal
\* exception, or is matched somewhere by a pattern exception, is never
\* reported, in any role and under any policy.  (Stated for the first visit
\* of each node.)
C10_Original ==
    (Visited /\ ~last.revisit /\ Excepted(last.name)) => ~last.called

\* the key of a property of a destructuring pattern
PatternKey(n) ==
    /\ parentOf(n).type = "Property"
    /\ grandparentOf(n).type = "ObjectPattern"
    /\ parentOf(n).key = n

\* key and bound value at once: the identifier of a shorthand { x }
PatternShorthandValue(n) == PatternKey(n) /\ parentOf(n).value = n

\* C11 as stated: the identifier of a shorthand pattern property { x } is
\* never reported, under "always" or under "never".
C11_Original ==
    (Visited /\ PatternShorthandValue(last.node)) => ~last.called

\* C11 amended: the identifier of a shorthand pattern property { x } is
\* checked like an object-literal key: under "always" a visit reports it iff
\* its checkable name is style-violating and no exception, and it is in the
\* reported list once however often it is visited; under "never" it is not
\* reported.  Only the key of a
\* pattern property that binds another node ({ x: y }) is exempt.
C11_ShorthandReportedOnce ==
    /\ (Visited /\ PatternShorthandValue(last.node)) =>
          /\ last.called <=>
                /\ properties = "always"
                /\ ~last.isException
                /\ isUnderscored(last.name)
          /\ Count(reported, last.node) <= 1
          /\ last.called => Count(reported, last.node) = 1
    /\ (Visited /\ PatternKey(last.node) /\ ~PatternShorthandValue(last.node)) =>
          ~last.called

\* the identifier of { c_id } was visited a second time, and is reported
\* once
C11_Witness ==
    /\ properties = "always"
    /\ Visited
    /\ PatternShorthandValue(last.node)
    /\ last.revisit
    /\ last.called
    /\ last.already
    /\ Count(reported, last.node) = 1

\* C12 as stated: no Identifier visit changes the state of a configured
\* prefix, suffix or exception matcher: every compiled pattern's lastIndex
\* is, after any number of visits, the 0 it was constructed with (so a
\* verdict cannot depend on the identifiers visited before).
C12_Original ==
    lastIndex = [prefixes |-> zeros(allowedPrefixes),
                 suffixes |-> zeros(allowedSuffixes),
                 exceptions |-> zeros(exceptions)]

\* C13: what removePrefix or removeSuffix returns is a contiguous substring
\* of its argument, no longer than it, and when the argument is not
\* style-violating the result is not style-violating either, for literal and
\* pattern affixes alike.
C13_StrippingKeepsAcceptable ==
    ret.op \in {"removePrefix", "removeSuffix"} =>
        /\ Substring(ret.out, ret.in)
        /\ Len(ret.out) <= Len(ret.in)
        /\ ~isUnderscored(ret.in) => ~isUnderscored(ret.out)

\* removePrefix took a prefix with an underscore off an all-upper-case
\* name, leaving an acceptable remainder that still has an underscore
C13_Witness ==
    /\ ret.op = "removePrefix"
    /\ ~isUnderscored(ret.in)
    /\ Len(ret.out) < Len(ret.in)
    /\ indexOf(ret.out, "_") >= 0
    /\ ~isUnderscored(ret.out)

=============================================================================
